---- MODULE Spec2Model ----
(***************************************************************************)
(* Contest log checker (main.py): scoring engine, ranking, line parsing    *)
(* and the entry collection of the desktop application.                    *)
(*                                                                         *)
(* Text is modelled as a sequence of one-character strings, so that        *)
(* trimming, upper-casing, digit extraction and prefix tests are computed  *)
(* character by character as the Python code computes them.  An            *)
(* Optional[int] is modelled as a set: {} is None and {v} is the value v.  *)
(***************************************************************************)
EXTENDS Integers, Sequences, FiniteSets, TLC

VARIABLES
    pc,         \* position of the run under the specification being checked
    entry,      \* SpecScore: the StationEntry handed to recalc_entry
    rankIn,     \* SpecRank: the list handed to rank_entries
    ranked,     \* SpecRank: the list of <<rank, entry>> it returns
    line,       \* SpecParse: the tokens of one raw log line
    rec,        \* SpecParse: the records parsed from it (zero or one)
    exported,   \* SpecParse: the tokens of the re-exported line(s)
    rec2,       \* SpecParse: the records parsed from the exported line(s)
    entries,    \* Spec: App.entries, callsign -> StationEntry
    overrides,  \* Spec: manual_overrides.json, callsign -> override record
    folder,     \* Spec: the submission files the last on_reload read, by name
    errors,     \* Spec: the errors list of the last on_reload (file positions)
    input,      \* the arguments of the function a function specification applies
    output      \* what the function returned

vars == <<pc, entry, rankIn, ranked, line, rec, exported, rec2,
          entries, overrides, folder, errors,
          input, output>>

-----------------------------------------------------------------------------
(* Bounds of the model *)

MaxQsos == 3

MaxEntries == 3

MaxFiles == 2

-----------------------------------------------------------------------------
(* Text helpers: str.strip, str.upper, re.sub(r"[^\d]", "", s), str(int(s)) *)

Digits == {"0", "1", "2", "3", "4", "5", "6", "7", "8", "9"}

LowerLetters == <<"a", "b", "c", "d", "e", "f", "g", "h", "i", "j", "k", "l", "m",
                  "n", "o", "p", "q", "r", "s", "t", "u", "v", "w", "x", "y", "z">>

UpperLetters == <<"A", "B", "C", "D", "E", "F", "G", "H", "I", "J", "K", "L", "M",
                  "N", "O", "P", "Q", "R", "S", "T", "U", "V", "W", "X", "Y", "Z">>

Whitespace == {" ", "\t"}

UpperMap ==
    [c \in {LowerLetters[i] : i \in 1..26} |->
        UpperLetters[CHOOSE i \in 1..26 : LowerLetters[i] = c]]

LowerMap ==
    [c \in {UpperLetters[i] : i \in 1..26} |->
        LowerLetters[CHOOSE i \in 1..26 : UpperLetters[i] = c]]

UpperChar(c) == IF c \in DOMAIN UpperMap THEN UpperMap[c] ELSE c

LowerChar(c) == IF c \in DOMAIN LowerMap THEN LowerMap[c] ELSE c

Upper(s) == [i \in 1..Len(s) |-> UpperChar(s[i])]

Lower(s) == [i \in 1..Len(s) |-> LowerChar(s[i])]

RECURSIVE LStrip(_)
LStrip(s) ==
    IF s # <<>> /\ Head(s) \in Whitespace THEN LStrip(Tail(s)) ELSE s

RECURSIVE RStrip(_)
RStrip(s) ==
    IF s # <<>> /\ s[Len(s)] \in Whitespace
    THEN RStrip(SubSeq(s, 1, Len(s) - 1))
    ELSE s

Strip(s) == RStrip(LStrip(s))

IsDigitChar(c) == c \in Digits

OnlyDigits(s) == SelectSeq(s, IsDigitChar)

AllDigits(s) == \A i \in 1..Len(s) : s[i] \in Digits

RECURSIVE DropLeadingZeros(_)
DropLeadingZeros(s) ==
    IF Len(s) > 1 /\ Head(s) = "0" THEN DropLeadingZeros(Tail(s)) ELSE s

StartsWith(s, p) == Len(s) >= Len(p) /\ SubSeq(s, 1, Len(p)) = p

\* True iff sub occurs in s ("sub in s")
Contains(s, sub) ==
    \E i \in 1..(Len(s) - Len(sub) + 1) : SubSeq(s, i, i + Len(sub) - 1) = sub

\* s.replace(sub, ""): the occurrences are removed from left to right
RECURSIVE RemoveAll(_, _)
RemoveAll(s, sub) ==
    IF s = <<>> THEN <<>>
    ELSE IF StartsWith(s, sub) THEN RemoveAll(SubSeq(s, Len(sub) + 1, Len(s)), sub)
    ELSE <<Head(s)>> \o RemoveAll(Tail(s), sub)

\* s.replace(a, b) for single characters a and b
ReplaceChar(s, a, b) == [i \in 1..Len(s) |-> IF s[i] = a THEN b ELSE s[i]]

\* s.split(): the maximal runs of non-whitespace characters
RECURSIVE SplitFrom(_, _, _)
SplitFrom(s, cur, acc) ==
    IF s = <<>> THEN (IF cur = <<>> THEN acc ELSE Append(acc, cur))
    ELSE IF Head(s) \in Whitespace
         THEN SplitFrom(Tail(s), <<>>, IF cur = <<>> THEN acc ELSE Append(acc, cur))
         ELSE SplitFrom(Tail(s), Append(cur, Head(s)), acc)

Split(s) == SplitFrom(s, <<>>, <<>>)

\* " ".join(fields)
RECURSIVE JoinSpace(_)
JoinSpace(fields) ==
    IF fields = <<>> THEN <<>>
    ELSE IF Len(fields) = 1 THEN fields[1]
    ELSE fields[1] \o <<" ">> \o JoinSpace(Tail(fields))

DigitSeq == <<"0", "1", "2", "3", "4", "5", "6", "7", "8", "9">>

DigitVal == [c \in Digits |-> (CHOOSE i \in 1..10 : DigitSeq[i] = c) - 1]

\* int(s) for a non-empty string of digits
RECURSIVE ParseInt(_)
ParseInt(s) ==
    IF s = <<>> THEN 0
    ELSE 10 * ParseInt(SubSeq(s, 1, Len(s) - 1)) + DigitVal[s[Len(s)]]

\* str(n)
RECURSIVE NatToStr(_)
NatToStr(n) ==
    IF n < 10 THEN <<DigitSeq[n + 1]>>
    ELSE NatToStr(n \div 10) \o <<DigitSeq[(n % 10) + 1]>>

IntToStr(n) == IF n < 0 THEN <<"-">> \o NatToStr(-n) ELSE NatToStr(n)

-----------------------------------------------------------------------------
(* Optional[int] *)

None == {}

Some(v) == {v}

Val(x) == CHOOSE v \in x : TRUE

-----------------------------------------------------------------------------
(* Token normalizers *)

\* _safe_int applied to an Optional[int]: None gives the default, an int itself
_safe_int(x, default) == IF x = None THEN default ELSE Val(x)

\* _canon_exchange: trim; "" and "-" give ""; keep the digits; str(int(digits))
_canon_exchange(exch) ==
    LET s == Strip(exch)
        d == OnlyDigits(s)
    IN  IF s = <<>> \/ s = <<"-">> THEN <<>>
        ELSE IF d = <<>> THEN <<>>
        ELSE DropLeadingZeros(d)

-----------------------------------------------------------------------------
(* Place-name normalizer.  A character outside ASCII is written uXXXX, the  *)
(* hexadecimal number of its code point.                                    *)

\* the characters the rules of normalize_opplace_any look for: city, ward,
\* district, town, village, and the postal mark
SHI == "u5e02"
KU == "u533a"
GUN == "u90e1"
MACHI == "u753a"
MURA == "u6751"
PostalMark == "u3012"

\* PREFS: the names of the 47 prefectures
PREFS ==
    << <<"u6771", "u4eac", "u90fd">>,
       <<"u5317", "u6d77", "u9053">>,
       <<"u5927", "u962a", "u5e9c">>,
       <<"u4eac", "u90fd", "u5e9c">>,
       <<"u9752", "u68ee", "u770c">>,
       <<"u5ca9", "u624b", "u770c">>,
       <<"u5bae", "u57ce", "u770c">>,
       <<"u79cb", "u7530", "u770c">>,
       <<"u5c71", "u5f62", "u770c">>,
       <<"u798f", "u5cf6", "u770c">>,
       <<"u8328", "u57ce", "u770c">>,
       <<"u6803", "u6728", "u770c">>,
       <<"u7fa4", "u99ac", "u770c">>,
       <<"u57fc", "u7389", "u770c">>,
       <<"u5343", "u8449", "u770c">>,
       <<"u795e", "u5948", "u5ddd", "u770c">>,
       <<"u65b0", "u6f5f", "u770c">>,
       <<"u5bcc", "u5c71", "u770c">>,
       <<"u77f3", "u5ddd", "u770c">>,
       <<"u798f", "u4e95", "u770c">>,
       <<"u5c71", "u68a8", "u770c">>,
       <<"u9577", "u91ce", "u770c">>,
       <<"u5c90", "u961c", "u770c">>,
       <<"u9759", "u5ca1", "u770c">>,
       <<"u611b", "u77e5", "u770c">>,
       <<"u4e09", "u91cd", "u770c">>,
       <<"u6ecb", "u8cc0", "u770c">>,
       <<"u5175", "u5eab", "u770c">>,
       <<"u5948", "u826f", "u770c">>,
       <<"u548c", "u6b4c", "u5c71", "u770c">>,
       <<"u9ce5", "u53d6", "u770c">>,
       <<"u5cf6", "u6839", "u770c">>,
       <<"u5ca1", "u5c71", "u770c">>,
       <<"u5e83", "u5cf6", "u770c">>,
       <<"u5c71", "u53e3", "u770c">>,
       <<"u5fb3", "u5cf6", "u770c">>,
       <<"u9999", "u5ddd", "u770c">>,
       <<"u611b", "u5a9b", "u770c">>,
       <<"u9ad8", "u77e5", "u770c">>,
       <<"u798f", "u5ca1", "u770c">>,
       <<"u4f50", "u8cc0", "u770c">>,
       <<"u9577", "u5d0e", "u770c">>,
       <<"u718a", "u672c", "u770c">>,
       <<"u5927", "u5206", "u770c">>,
       <<"u5bae", "u5d0e", "u770c">>,
       <<"u9e7f", "u5150", "u5cf6", "u770c">>,
       <<"u6c96", "u7e04", "u770c">> >>

\* HYPHEN_CHARS
HYPHEN_CHARS == {"-", "u2010", "u2011", "u2012", "u2013", "u2014", "u2015", "u2212",
         "u30fc", "uff0d"}

\* HOME_MARKERS: permanent location, same as above, home, address, own station
HOME_MARKERS == << <<"u5e38", "u7f6e", "u5834", "u6240">>, <<"u540c", "u4e0a">>,
         <<"u81ea", "u5b85">>, <<"u4f4f", "u6240">>, <<"u81ea", "u5c40">> >>

\* the name of the city of Saitama, and the text returned when its ward is
\* not found
SaitamaCity == <<"u3055", "u3044", "u305f", "u307e", "u5e02">>
SaitamaWardUnknown == <<"u3055", "u3044", "u305f", "u307e", "u5e02", "uff08", "u533a",
         "u4e0d", "u660e", "uff09">>

\* _opplace_means_home
_opplace_means_home(opplace_raw) ==
    \/ Strip(opplace_raw) = <<>>
    \/ \E k \in 1..Len(HOME_MARKERS) : Contains(Strip(opplace_raw), HOME_MARKERS[k])

\* the value of an expression, computed before it is passed on
Computed(x) == CHOOSE v \in {x} : TRUE

\* the least i >= from with s[i] = c, and 0 when there is none
IndexFrom(s, c, from) ==
    IF \E i \in from..Len(s) : s[i] = c
    THEN CHOOSE i \in from..Len(s) : s[i] = c /\ \A j \in from..(i - 1) : s[j] # c
    ELSE 0

\* s.replace(sub, rep)
RECURSIVE ReplaceAll(_, _, _)
ReplaceAll(s, sub, rep) ==
    IF s = <<>> THEN <<>>
    ELSE IF StartsWith(s, sub)
         THEN rep \o ReplaceAll(SubSeq(s, Len(sub) + 1, Len(s)), sub, rep)
         ELSE <<Head(s)>> \o ReplaceAll(Tail(s), sub, rep)

\* the characters that are not \w among those of the model; every other
\* character (letters, digits, kana, kanji) is a word character
NonWordChars ==
    Whitespace \cup {"-", ",", ".", "/", "(", ")", PostalMark, "uff08", "uff09",
                     "u2010", "u2011", "u2012", "u2013", "u2014", "u2015", "u2212",
                     "uff0d"}

IsWordAt(s, i) == i >= 1 /\ i <= Len(s) /\ s[i] \notin NonWordChars

\* \b between s[i - 1] and s[i]
AtBoundary(s, i) == IsWordAt(s, i - 1) # IsWordAt(s, i)

\* one item of a pattern: count characters of a class, or as many as there
\* are (count = -1)
Item(chars, count) == [chars |-> chars, count |-> count]

RECURSIVE SkipWhile(_, _, _)
SkipWhile(s, i, chars) ==
    IF i <= Len(s) /\ s[i] \in chars THEN SkipWhile(s, i + 1, chars) ELSE i

\* the position after the match of the pattern at position i, 0 without a match
RECURSIVE MatchEnd(_, _, _)
MatchEnd(s, i, pat) ==
    IF pat = <<>> THEN i
    ELSE IF Head(pat).count < 0
         THEN MatchEnd(s, SkipWhile(s, i, Head(pat).chars), Tail(pat))
    ELSE IF /\ i + Head(pat).count - 1 <= Len(s)
            /\ \A k \in i..(i + Head(pat).count - 1) : s[k] \in Head(pat).chars
         THEN MatchEnd(s, i + Head(pat).count, Tail(pat))
    ELSE 0

MatchesAt(s, i, pat, bounded) ==
    /\ MatchEnd(s, i, pat) # 0
    /\ bounded => (AtBoundary(s, i) /\ AtBoundary(s, MatchEnd(s, i, pat)))

\* re.sub(pattern, " ", s) from position i on; bounded: the pattern stands
\* between two \b
RECURSIVE ReSubFrom(_, _, _, _)
ReSubFrom(s, i, pat, bounded) ==
    IF i > Len(s) THEN <<>>
    ELSE IF MatchesAt(s, i, pat, bounded)
         THEN <<" ">> \o ReSubFrom(s, MatchEnd(s, i, pat), pat, bounded)
         ELSE <<s[i]>> \o ReSubFrom(s, i + 1, pat, bounded)

\* re.sub(pattern, " ", s), which leaves a text without a match as it is
ReSub(s, pat, bounded) ==
    IF \E i \in 1..Len(s) : MatchesAt(s, i, pat, bounded)
    THEN ReSubFrom(s, 1, pat, bounded)
    ELSE s

\* the four postal-code patterns of _strip_postal_and_prefs
PostalMarkHyphen ==
    << Item({PostalMark}, 1), Item(Whitespace, -1), Item(Digits, 3), Item(Whitespace, -1),
       Item(HYPHEN_CHARS, 1), Item(Whitespace, -1), Item(Digits, 4), Item(Whitespace, -1) >>

PostalMarkPlain ==
    << Item({PostalMark}, 1), Item(Whitespace, -1), Item(Digits, 3), Item(Whitespace, -1),
       Item(Digits, 4), Item(Whitespace, -1) >>

PostalHyphen ==
    << Item(Digits, 3), Item(Whitespace, -1), Item(HYPHEN_CHARS, 1), Item(Whitespace, -1),
       Item(Digits, 4) >>

PostalPlain == << Item(Digits, 3), Item(Whitespace, -1), Item(Digits, 4) >>

strip_postal(s) ==
    ReSub(ReSub(ReSub(ReSub(s, PostalMarkHyphen, FALSE), PostalMarkPlain, FALSE),
                PostalHyphen, TRUE),
          PostalPlain, TRUE)

\* the first name of PREFS from the k-th on that the text contains, 0 when
\* it contains none of them
next_pref(s, k) ==
    IF \E j \in k..Len(PREFS) : Contains(s, PREFS[j])
    THEN CHOOSE j \in k..Len(PREFS) :
            /\ Contains(s, PREFS[j])
            /\ \A h \in k..(j - 1) : ~Contains(s, PREFS[h])
    ELSE 0

\* for p in PREFS: s = s.replace(p, " "), from the k-th name on; a name the
\* text does not contain leaves the text as it is, so the loop goes from one
\* contained name to the next
RECURSIVE strip_prefs(_, _)
RECURSIVE strip_prefs_at(_, _)
strip_prefs_at(s, j) ==
    IF j = 0 THEN s ELSE strip_prefs(Computed(ReplaceAll(s, PREFS[j], <<" ">>)), j + 1)

strip_prefs(s, k) == strip_prefs_at(s, next_pref(s, k))

\* the positions kept by re.sub(r"[ \t]+", " ", s): every character but a
\* blank that follows a blank
KeptByCollapse(s) == {i \in 1..Len(s) : ~(s[i] \in Whitespace /\ i > 1 /\ s[i - 1] \in Whitespace)}

\* re.sub(r"[ \t]+", " ", s)
collapse_blanks(s) ==
    [n \in 1..Cardinality(KeptByCollapse(s)) |->
        LET i == CHOOSE i \in KeptByCollapse(s) :
                     Cardinality({j \in KeptByCollapse(s) : j <= i}) = n
        IN  IF s[i] \in Whitespace THEN " " ELSE s[i]]

\* _strip_postal_and_prefs
_strip_postal_and_prefs(s) ==
    IF Strip(s) = <<>> THEN <<>>
    ELSE Strip(collapse_blanks(Computed(strip_prefs(Computed(strip_postal(Strip(s))), 1))))

\* ^(.+?SHI.+?KU): the first city mark after a character, then the first
\* ward mark after one more character
city_ward_end(s) ==
    IF IndexFrom(s, SHI, 2) = 0 THEN 0 ELSE IndexFrom(s, KU, IndexFrom(s, SHI, 2) + 2)

\* re.search(SaitamaCity .+? KU) in fb: the match, <<>> without one
RECURSIVE saitama_ward_from(_, _)
saitama_ward_from(fb, i) ==
    IF i + Len(SaitamaCity) - 1 > Len(fb) THEN <<>>
    ELSE IF /\ SubSeq(fb, i, i + Len(SaitamaCity) - 1) = SaitamaCity
            /\ IndexFrom(fb, KU, i + Len(SaitamaCity) + 1) # 0
         THEN SubSeq(fb, i, IndexFrom(fb, KU, i + Len(SaitamaCity) + 1))
    ELSE saitama_ward_from(fb, i + 1)

\* the branch of the city of Saitama
saitama_ward(s, fb) ==
    IF StartsWith(s, SaitamaCity) /\ IndexFrom(s, KU, Len(SaitamaCity) + 2) # 0
    THEN Strip(SubSeq(s, 1, IndexFrom(s, KU, Len(SaitamaCity) + 2)))
    ELSE IF saitama_ward_from(fb, 1) # <<>> THEN Strip(saitama_ward_from(fb, 1))
    ELSE SaitamaWardUnknown

\* ^.*?GUN(.{1,}?c): the first district mark followed, after a character, by
\* c; the text between the district mark and c, c included
after_district(s, c, g) ==
    IF g = 0 THEN <<>>
    ELSE IF IndexFrom(s, c, g + 2) = 0 THEN <<>>
    ELSE SubSeq(s, g + 1, IndexFrom(s, c, g + 2))

\* the rules of normalize_opplace_any on the stripped text s
place_rules(s, fallback_text) ==
    IF city_ward_end(s) # 0 THEN Strip(SubSeq(s, 1, city_ward_end(s)))
    ELSE IF IndexFrom(s, SHI, 3) # 0
         THEN (IF Strip(SubSeq(s, 1, IndexFrom(s, SHI, 3))) = SaitamaCity
               THEN saitama_ward(s, Computed(_strip_postal_and_prefs(fallback_text)))
               ELSE Strip(SubSeq(s, 1, IndexFrom(s, SHI, 3))))
    ELSE IF IndexFrom(s, KU, 3) # 0 THEN Strip(SubSeq(s, 1, IndexFrom(s, KU, 3)))
    ELSE IF after_district(s, MACHI, IndexFrom(s, GUN, 1)) # <<>>
         THEN Strip(after_district(s, MACHI, IndexFrom(s, GUN, 1)))
    ELSE IF after_district(s, MURA, IndexFrom(s, GUN, 1)) # <<>>
         THEN Strip(after_district(s, MURA, IndexFrom(s, GUN, 1)))
    ELSE IF IndexFrom(s, MACHI, 3) # 0 THEN Strip(SubSeq(s, 1, IndexFrom(s, MACHI, 3)))
    ELSE IF IndexFrom(s, MURA, 3) # 0 THEN Strip(SubSeq(s, 1, IndexFrom(s, MURA, 3)))
    ELSE Strip(s)

\* normalize_opplace_any
normalize_opplace_any(text, fallback_text) ==
    IF _strip_postal_and_prefs(text) = <<>> THEN <<>>
    ELSE place_rules(Computed(_strip_postal_and_prefs(text)), fallback_text)

\* The places of the bounded inputs: an address with its prefecture, city,
\* ward and house number; an address in the city of Saitama with its ward;
\* "same as above"; a city; the city typed beside a pasted text; the place
\* typed in the manual edit dialog
AddrYokohama ==
    <<"u795e", "u5948", "u5ddd", "u770c", "u6a2a", "u6d5c", "u5e02", "u4e2d", "u533a", "1">>
AddrSaitama ==
    <<"u57fc", "u7389", "u770c", "u3055", "u3044", "u305f", "u307e", "u5e02",
      "u6d66", "u548c", "u533a", "2">>
OpSameAsAbove == <<"u540c", "u4e0a">>
OpChiba == <<"u5343", "u8449", "u5e02">>
TypedKawasaki == <<"u5ddd", "u5d0e", "u5e02", " ">>
ManualKamakura == <<" ", "u795e", "u5948", "u5ddd", "u770c", "u938c", "u5009", "u5e02">>

\* normalize_opplace_any of the manual place over the addresses above,
\* computed once
ManualPlaceTable ==
    [fallback_text \in {<<>>, AddrYokohama, AddrSaitama} |->
        normalize_opplace_any(Strip(ManualKamakura), fallback_text)]

\* normalize_opplace_any(text, fallback_text), read from the table where the
\* table holds it
normalized_place(text, fallback_text) ==
    IF text = Strip(ManualKamakura) /\ fallback_text \in DOMAIN ManualPlaceTable
    THEN ManualPlaceTable[fallback_text]
    ELSE normalize_opplace_any(text, fallback_text)

-----------------------------------------------------------------------------
(* Data model *)

QsoRecord(date, time, band, mode, call, sent, rcvd, pts) ==
    [date |-> date, time |-> time, band_mhz |-> band, mode |-> mode,
     worked_call |-> call, sent_exch |-> sent, rcvd_exch |-> rcvd,
     pts |-> pts, dup |-> FALSE]

NoReason == [zero |-> FALSE, diffs |-> <<>>, note |-> <<>>]

StationEntry ==
    [callsign |-> <<>>, category |-> <<>>,
     address |-> <<>>, opplace |-> <<>>,
     claimed_qso |-> None, claimed_pts |-> None,
     claimed_mult |-> None, claimed_total |-> None,
     qsos |-> <<>>,
     recalced_qso |-> 0, recalced_pts |-> 0, recalced_mult |-> 0, recalced_total |-> 0,
     manual_enabled |-> FALSE,
     manual_qso |-> None, manual_pts |-> None,
     manual_mult |-> None, manual_total |-> None,
     manual_note |-> <<>>, manual_opplace |-> <<>>,
     match |-> TRUE, reason |-> NoReason,
     source_name |-> "", raw_submission_text |-> <<>>,
     is_checklog |-> FALSE]

-----------------------------------------------------------------------------
(* Scoring engine *)

\* dedup_key comparing the mode as written
dedup_key_case_sensitive(q) ==
    <<Strip(q.band_mhz), Strip(q.mode), Upper(Strip(q.worked_call))>>

dedup_key(q) ==
    <<Strip(q.band_mhz), Upper(Strip(q.mode)), Upper(Strip(q.worked_call))>>

RECURSIVE mark_from(_, _, _)
mark_from(qsos, i, seen) ==
    IF i > Len(qsos) THEN qsos
    ELSE LET q == qsos[i]
             key == dedup_key(q)
         IN  IF key \in seen
             THEN mark_from([qsos EXCEPT ![i].dup = TRUE, ![i].pts = 0], i + 1, seen)
             ELSE mark_from([qsos EXCEPT ![i].dup = (q.pts = 0)], i + 1,
                            seen \cup {key})

RECURSIVE mark_from_misindented(_, _, _)
mark_from_misindented(qsos, i, seen) ==
    IF i > Len(qsos) THEN qsos
    ELSE LET q == qsos[i]
             key == dedup_key(q)
         IN  IF key \in seen
             THEN mark_from_misindented(
                      [qsos EXCEPT ![i].dup = TRUE, ![i].pts = 0], i + 1, seen)
             ELSE mark_from_misindented(
                      [qsos EXCEPT ![i].dup = (q.pts = 0), ![i].pts = 0], i + 1,
                      seen \cup {key})

\* mark_duplicates with "q.pts = 0" run for every contact
mark_duplicates_zero_all(qsos) == mark_from_misindented(qsos, 1, {})

\* mark_duplicates: the QsoRecord objects are mutated in place
mark_duplicates(qsos) == mark_from(qsos, 1, {})

IsValid(q) == (~q.dup) /\ q.pts > 0

RECURSIVE SumPts(_)
SumPts(qs) == IF qs = <<>> THEN 0 ELSE Head(qs).pts + SumPts(Tail(qs))

\* mult_set without the "if ex" test
mult_set_with_empty(valid) ==
    {_canon_exchange(valid[i].rcvd_exch) : i \in 1..Len(valid)}

\* mult_set of recalc_entry: the non-empty canonical received exchanges
mult_set(valid) ==
    {_canon_exchange(valid[i].rcvd_exch) : i \in 1..Len(valid)} \ {<<>>}

\* the last statement of _apply_manual_override: a manual place that is not
\* blank replaces the operating place of the entry
override_place(e) ==
    IF Strip(e.manual_opplace) # <<>>
    THEN [e EXCEPT !.opplace = normalized_place(Strip(e.manual_opplace), e.address)]
    ELSE e

\* _apply_manual_override without the else branch that recomputes the total
_apply_manual_override_stale_total(e) ==
    IF ~e.manual_enabled THEN e
    ELSE LET q == IF e.manual_qso # None THEN Val(e.manual_qso) ELSE e.recalced_qso
             p == IF e.manual_pts # None THEN Val(e.manual_pts) ELSE e.recalced_pts
             m == IF e.manual_mult # None THEN Val(e.manual_mult) ELSE e.recalced_mult
             t == IF e.manual_total # None THEN Val(e.manual_total)
                  ELSE e.recalced_total
         IN  override_place([e EXCEPT !.recalced_qso = q, !.recalced_pts = p,
                                      !.recalced_mult = m, !.recalced_total = t])

\* _apply_manual_override without the manual_enabled test
_apply_manual_override_ignores_enabled(e) ==
    LET q == IF e.manual_qso # None THEN Val(e.manual_qso) ELSE e.recalced_qso
        p == IF e.manual_pts # None THEN Val(e.manual_pts) ELSE e.recalced_pts
        m == IF e.manual_mult # None THEN Val(e.manual_mult) ELSE e.recalced_mult
        t == IF e.manual_total # None THEN Val(e.manual_total) ELSE p * m
    IN  override_place([e EXCEPT !.recalced_qso = q, !.recalced_pts = p,
                                 !.recalced_mult = m, !.recalced_total = t])

\* _apply_manual_override
_apply_manual_override(e) ==
    IF ~e.manual_enabled THEN e
    ELSE LET q == IF e.manual_qso # None THEN Val(e.manual_qso) ELSE e.recalced_qso
             p == IF e.manual_pts # None THEN Val(e.manual_pts) ELSE e.recalced_pts
             m == IF e.manual_mult # None THEN Val(e.manual_mult) ELSE e.recalced_mult
             t == IF e.manual_total # None THEN Val(e.manual_total) ELSE p * m
         IN  override_place([e EXCEPT !.recalced_qso = q, !.recalced_pts = p,
                                      !.recalced_mult = m, !.recalced_total = t])

ZeroClaimReason == [zero |-> TRUE, diffs |-> <<>>, note |-> <<>>]

\* add_reason without the "a is None" test
add_reason_none_differs(reasons, label, a, b) ==
    IF _safe_int(a, -999999) # b
    THEN Append(reasons, <<label, _safe_int(a, -999999), b>>)
    ELSE reasons

\* add_reason: a present claimed figure that differs is recorded with its label
add_reason(reasons, label, a, b) ==
    IF a = None THEN reasons
    ELSE IF _safe_int(a, -999999) # b
         THEN Append(reasons, <<label, Val(a), b>>)
         ELSE reasons

compare_claims(e) ==
    LET r1 == add_reason(<<>>, "QSO", e.claimed_qso, e.recalced_qso)
        r2 == add_reason(r1, "PTS", e.claimed_pts, e.recalced_pts)
        r3 == add_reason(r2, "MULT", e.claimed_mult, e.recalced_mult)
        r4 == add_reason(r3, "TOTAL", e.claimed_total, e.recalced_total)
        note == IF e.manual_enabled /\ Strip(e.manual_note) # <<>>
                THEN e.manual_note ELSE <<>>
    IN  [e EXCEPT !.match = (Len(r4) = 0),
                  !.reason = [zero |-> FALSE, diffs |-> r4, note |-> note]]

\* recalc_entry without the zero-claim rule
recalc_entry_no_zero_rule(e) ==
    LET qsos == mark_duplicates(e.qsos)
        valid == SelectSeq(qsos, IsValid)
        pts == SumPts(valid)
        mult == Cardinality(mult_set(valid))
        e1 == [e EXCEPT !.qsos = qsos,
                        !.recalced_qso = Len(valid),
                        !.recalced_pts = pts,
                        !.recalced_mult = mult,
                        !.recalced_total = pts * mult]
    IN  compare_claims(_apply_manual_override(e1))

recalc_entry(e) ==
    LET qsos == mark_duplicates(e.qsos)
        valid == SelectSeq(qsos, IsValid)
        pts == SumPts(valid)
        mult == Cardinality(mult_set(valid))
        e1 == [e EXCEPT !.qsos = qsos,
                        !.recalced_qso = Len(valid),
                        !.recalced_pts = pts,
                        !.recalced_mult = mult,
                        !.recalced_total = pts * mult]
        e2 == _apply_manual_override(e1)
    IN  IF e2.claimed_total # None /\ _safe_int(e2.claimed_total, 0) = 0
        THEN [e2 EXCEPT !.match = TRUE, !.reason = ZeroClaimReason]
        ELSE compare_claims(e2)

-----------------------------------------------------------------------------
(* SpecScore: recalc_entry applied to every entry of the bounded input sets *)

S50 == <<"5", "0">>
S144 == <<"1", "4", "4">>
SAM == <<"A", "M">>
Sam == <<"a", "m">>
CallA == <<"J", "A", "1", "A">>
CallB == <<"J", "A", "1", "B">>
SDate == <<"2", "0", "2", "5", "-", "0", "5", "-", "0", "5">>
STime == <<"1", "0", ":", "0", "0">>

ScoreQso(band, mode, call, rcvd, pts) ==
    QsoRecord(SDate, STime, band, mode, call, <<"5">>, rcvd, pts)

QsoPool ==
    { ScoreQso(S50, SAM, CallA, <<"1", "2">>, 2),
      ScoreQso(S50, Sam, CallA, <<"1", "3">>, 2),
      ScoreQso(S50, SAM, CallB, <<"1", "2">>, 1),
      ScoreQso(S144, SAM, CallA, <<>>, 2),
      ScoreQso(S50, SAM, CallB, <<"1", "4">>, 0) }

SeqsUpTo(S, n) == UNION {[1..k -> S] : k \in 0..n}

\* the lists of at most n pairwise different elements of S
DistinctSeqsUpTo(S, n) ==
    {q \in SeqsUpTo(S, n) : \A i, j \in 1..Len(q) : i # j => q[i] # q[j]}

ClaimedQsoPool == {None, Some(2)}
ClaimedPtsPool == {None, Some(3)}
ClaimedMultPool == {None, Some(2)}
ClaimedTotalPool == {None, Some(0), Some(6)}

ManualQsoPool == {None, Some(2)}
ManualPtsPool == {None, Some(3)}
ManualMultPool == {None, Some(1)}
ManualTotalPool == {None, Some(6)}
ManualNote == <<"n">>

InitScore ==
    /\ pc = "built"
    /\ entry \in
          { [StationEntry EXCEPT
                !.callsign = CallA, !.qsos = qs,
                !.claimed_qso = cq, !.claimed_pts = cp,
                !.claimed_mult = cm, !.claimed_total = ct,
                !.manual_enabled = en,
                !.manual_qso = mq, !.manual_pts = mp,
                !.manual_mult = mm, !.manual_total = mt,
                !.manual_note = ManualNote] :
             qs \in DistinctSeqsUpTo(QsoPool, MaxQsos),
             cq \in ClaimedQsoPool, cp \in ClaimedPtsPool,
             cm \in ClaimedMultPool, ct \in ClaimedTotalPool,
             en \in BOOLEAN,
             mq \in ManualQsoPool, mp \in ManualPtsPool,
             mm \in ManualMultPool, mt \in ManualTotalPool }
    /\ rankIn = <<>> /\ ranked = <<>>
    /\ line = <<>> /\ rec = <<>> /\ exported = <<>> /\ rec2 = <<>>
    /\ input = <<>> /\ output = <<>>
    /\ entries = <<>> /\ overrides = <<>> /\ folder = <<>> /\ errors = <<>>

RecalcEntry ==
    /\ pc = "built"
    /\ entry' = recalc_entry(entry)
    /\ pc' = "recalced"
    /\ UNCHANGED <<rankIn, ranked, line, rec, exported, rec2,
                   entries, overrides, folder, errors, input, output>>

NextScore == RecalcEntry

SpecScore == InitScore /\ [][NextScore]_vars

-----------------------------------------------------------------------------
(* Properties of recalc_entry, stated over the entry it has returned *)

Recalced == pc = "recalced"

ClaimedZero == entry.claimed_total # None /\ Val(entry.claimed_total) = 0

\* the contacts that count: not marked duplicate, positive points
ValidIdx == {i \in 1..Len(entry.qsos) : ~entry.qsos[i].dup /\ entry.qsos[i].pts > 0}

RECURSIVE SumOver(_, _)
SumOver(qs, I) ==
    IF I = {} THEN 0
    ELSE LET i == CHOOSE j \in I : TRUE IN qs[i].pts + SumOver(qs, I \ {i})

LogQso == Cardinality(ValidIdx)
LogPts == SumOver(entry.qsos, ValidIdx)
LogMult ==
    Cardinality({_canon_exchange(entry.qsos[i].rcvd_exch) : i \in ValidIdx} \ {<<>>})

\* a claimed figure agrees when it is absent or equals the recomputed figure
Agrees(claimed, recalced) == claimed = None \/ Val(claimed) = recalced

AllAgree ==
    /\ Agrees(entry.claimed_qso, entry.recalced_qso)
    /\ Agrees(entry.claimed_pts, entry.recalced_pts)
    /\ Agrees(entry.claimed_mult, entry.recalced_mult)
    /\ Agrees(entry.claimed_total, entry.recalced_total)

DiffLabels == {entry.reason.diffs[i][1] : i \in 1..Len(entry.reason.diffs)}

\* C1: after recalc_entry, recalced_total is recalced_pts * recalced_mult, unless
\* the manual override is enabled and supplies a total, and then it is that total.
C1_TotalIsProduct ==
    Recalced =>
        IF entry.manual_enabled /\ entry.manual_total # None
        THEN entry.recalced_total = Val(entry.manual_total)
        ELSE entry.recalced_total = entry.recalced_pts * entry.recalced_mult

C1_Witness ==
    /\ Recalced
    /\ entry.manual_enabled /\ entry.manual_total = None
    /\ entry.manual_pts # None /\ entry.manual_mult = None
    /\ entry.recalced_pts # LogPts
    /\ entry.recalced_total > 0

\* C2: a claimed total that is present and 0 gives match = TRUE with the fixed
\* zero-claim reason, whatever the other figures and the override are.
C2_ZeroClaimMatches ==
    (Recalced /\ ClaimedZero) =>
        /\ entry.match
        /\ entry.reason.zero
        /\ entry.reason.diffs = <<>>

C2_Witness ==
    /\ Recalced /\ ClaimedZero
    /\ entry.claimed_qso # None /\ Val(entry.claimed_qso) # entry.recalced_qso
    /\ entry.recalced_total # 0
    /\ entry.manual_enabled
    /\ entry.match

\* C3: mark_duplicates is idempotent: run again on the contacts it has marked,
\* it changes no dup flag and no pts value.
C3_DedupIdempotent ==
    Recalced =>
        LET again == mark_duplicates(entry.qsos)
        IN  \A i \in 1..Len(entry.qsos) :
                /\ again[i].dup = entry.qsos[i].dup
                /\ again[i].pts = entry.qsos[i].pts

C3_Witness ==
    /\ Recalced
    /\ \E i, j, k \in 1..Len(entry.qsos) :
        /\ entry.qsos[i].dup /\ entry.qsos[i].rcvd_exch = <<"1", "3">>
        /\ entry.qsos[j].dup /\ entry.qsos[j].rcvd_exch = <<"1", "4">>
        /\ ~entry.qsos[k].dup

\* C7: with the override disabled, recalced_qso is the number of contacts with
\* dup = FALSE and pts > 0, recalced_pts the sum of their pts, and recalced_mult
\* the number of distinct non-empty canonical received exchanges among them.
C7_LogFigures ==
    (Recalced /\ ~entry.manual_enabled) =>
        /\ entry.recalced_qso = LogQso
        /\ entry.recalced_pts = LogPts
        /\ entry.recalced_mult = LogMult

C7_Witness ==
    /\ Recalced /\ ~entry.manual_enabled
    /\ entry.recalced_qso = 3
    /\ entry.recalced_mult = 1
    /\ entry.recalced_pts = 5

\* the dedup key as the claim states it
ClaimKey(q) == <<Strip(q.band_mhz), Upper(q.mode), Upper(q.worked_call)>>

\* the contacts whose key is the key of an earlier contact of the list
LaterSameKey ==
    {i \in 1..Len(entry.qsos) :
        \E j \in 1..(i - 1) : ClaimKey(entry.qsos[j]) = ClaimKey(entry.qsos[i])}

FirstValidIdx == ValidIdx \ LaterSameKey

\* C8: a contact whose (band, MODE, CALL) key is that of an earlier contact is
\* marked dup with pts 0, and the recomputed QSO count, points and multiplier
\* are those of the other contacts alone.
C8_DuplicateAddsNothing ==
    Recalced =>
        /\ \A i \in LaterSameKey : entry.qsos[i].dup /\ entry.qsos[i].pts = 0
        /\ ~entry.manual_enabled =>
            /\ entry.recalced_qso = Cardinality(FirstValidIdx)
            /\ entry.recalced_pts = SumOver(entry.qsos, FirstValidIdx)
            /\ entry.recalced_mult =
                 Cardinality({_canon_exchange(entry.qsos[i].rcvd_exch) :
                                 i \in FirstValidIdx} \ {<<>>})

C8_Witness ==
    /\ Recalced /\ ~entry.manual_enabled
    /\ Len(entry.qsos) = 2
    /\ entry.qsos[1].mode = SAM /\ entry.qsos[2].mode = Sam
    /\ LaterSameKey = {2}
    /\ entry.qsos[2].dup /\ entry.qsos[2].pts = 0
    /\ entry.recalced_qso = 1 /\ entry.recalced_pts = 2 /\ entry.recalced_mult = 1

\* C9: unless the claimed total is present and 0, match is TRUE exactly when
\* every claimed figure that is present equals its recomputed figure; the
\* discrepancies recorded are exactly the present figures that differ.
C9_MatchIffAgree ==
    (Recalced /\ ~ClaimedZero) =>
        /\ entry.match <=> AllAgree
        /\ ("QSO" \in DiffLabels) <=> ~Agrees(entry.claimed_qso, entry.recalced_qso)
        /\ ("PTS" \in DiffLabels) <=> ~Agrees(entry.claimed_pts, entry.recalced_pts)
        /\ ("MULT" \in DiffLabels) <=> ~Agrees(entry.claimed_mult, entry.recalced_mult)
        /\ ("TOTAL" \in DiffLabels) <=>
               ~Agrees(entry.claimed_total, entry.recalced_total)

C9_Witness ==
    /\ Recalced
    /\ entry.claimed_total = None /\ entry.recalced_total > 0
    /\ entry.claimed_mult = None /\ entry.recalced_mult > 0
    /\ entry.claimed_qso # None /\ entry.claimed_pts # None
    /\ entry.match

ExpectedQso ==
    IF entry.manual_enabled /\ entry.manual_qso # None
    THEN Val(entry.manual_qso) ELSE LogQso
ExpectedPts ==
    IF entry.manual_enabled /\ entry.manual_pts # None
    THEN Val(entry.manual_pts) ELSE LogPts
ExpectedMult ==
    IF entry.manual_enabled /\ entry.manual_mult # None
    THEN Val(entry.manual_mult) ELSE LogMult
ExpectedTotal ==
    IF entry.manual_enabled /\ entry.manual_total # None
    THEN Val(entry.manual_total) ELSE ExpectedPts * ExpectedMult

\* C10: the override is applied after the recomputation and before the
\* comparison: enabled, each figure is its override value if supplied and the
\* log-derived value otherwise (the total: the product of the resulting points
\* and multiplier); disabled, stored override values change no figure; and the
\* verdict compares the claimed figures with the resulting ones.
C10_OverrideThenCompare ==
    Recalced =>
        /\ entry.recalced_qso = ExpectedQso
        /\ entry.recalced_pts = ExpectedPts
        /\ entry.recalced_mult = ExpectedMult
        /\ entry.recalced_total = ExpectedTotal
        /\ entry.match <=>
             \/ ClaimedZero
             \/ /\ Agrees(entry.claimed_qso, ExpectedQso)
                /\ Agrees(entry.claimed_pts, ExpectedPts)
                /\ Agrees(entry.claimed_mult, ExpectedMult)
                /\ Agrees(entry.claimed_total, ExpectedTotal)

C10_Witness ==
    /\ Recalced /\ entry.manual_enabled
    /\ entry.manual_qso # None /\ entry.manual_pts = None
    /\ entry.manual_total = None /\ entry.manual_mult # None
    /\ LogQso # Val(entry.manual_qso) /\ LogPts > 0
    /\ LogMult # Val(entry.manual_mult)
    /\ entry.claimed_qso # None /\ Val(entry.claimed_qso) = entry.recalced_qso
    /\ entry.match

C10_WitnessDisabled ==
    /\ Recalced /\ ~entry.manual_enabled
    /\ entry.manual_qso # None /\ entry.manual_total # None
    /\ entry.recalced_total # Val(entry.manual_total)

-----------------------------------------------------------------------------
(* Ranking engine *)

\* Python compares str by code point: "/" < digits < upper case < lower case
CodeOrder ==
    <<"/">> \o <<"0", "1", "2", "3", "4", "5", "6", "7", "8", "9">>
            \o UpperLetters \o LowerLetters

CodeOf == [c \in {CodeOrder[i] : i \in 1..Len(CodeOrder)} |->
              CHOOSE i \in 1..Len(CodeOrder) : CodeOrder[i] = c]

RECURSIVE StrLess(_, _)
StrLess(a, b) ==
    IF b = <<>> THEN FALSE
    ELSE IF a = <<>> THEN TRUE
    ELSE IF Head(a) = Head(b) THEN StrLess(Tail(a), Tail(b))
    ELSE CodeOf[Head(a)] < CodeOf[Head(b)]

_entry_rank_metrics(e) ==
    <<e.recalced_total, e.recalced_pts, e.recalced_mult, e.recalced_qso>>

\* the sort key of rank_entries without the callsign
rank_sort_key_figures_only(e) ==
    <<-e.recalced_total, -e.recalced_pts, -e.recalced_mult, -e.recalced_qso, <<>> >>

\* the sort key of rank_entries: the negated figures, then the callsign
rank_sort_key(e) ==
    <<-e.recalced_total, -e.recalced_pts, -e.recalced_mult, -e.recalced_qso,
      e.callsign>>

\* k1 < k2 for two sort keys, compared as Python compares tuples
KeyLess(k1, k2) ==
    IF k1[1] # k2[1] THEN k1[1] < k2[1]
    ELSE IF k1[2] # k2[2] THEN k1[2] < k2[2]
    ELSE IF k1[3] # k2[3] THEN k1[3] < k2[3]
    ELSE IF k1[4] # k2[4] THEN k1[4] < k2[4]
    ELSE StrLess(k1[5], k2[5])

\* sorted(): stable, so an element goes after every element that is not greater
RECURSIVE InsertSorted(_, _)
InsertSorted(sortedEs, e) ==
    IF sortedEs = <<>> THEN <<e>>
    ELSE IF KeyLess(rank_sort_key(e), rank_sort_key(Head(sortedEs)))
         THEN <<e>> \o sortedEs
         ELSE <<Head(sortedEs)>> \o InsertSorted(Tail(sortedEs), e)

RECURSIVE SortFrom(_, _, _)
SortFrom(es, i, acc) ==
    IF i > Len(es) THEN acc ELSE SortFrom(es, i + 1, InsertSorted(acc, es[i]))

sorted_by_rank_key(es) == SortFrom(es, 1, <<>>)

\* the numbering loop of rank_entries; prev is None ({}) or {prev_metrics}
RECURSIVE rank_loop(_, _, _, _, _)
rank_loop(sortedEs, i, prev, prev_rank, acc) ==
    IF i > Len(sortedEs) THEN acc
    ELSE LET e == sortedEs[i]
             metrics == _entry_rank_metrics(e)
             rank == IF prev # {} /\ metrics \in prev THEN prev_rank ELSE i
         IN  rank_loop(sortedEs, i + 1, {metrics}, rank, Append(acc, <<rank, e>>))

RECURSIVE rank_loop_dense(_, _, _, _, _)
rank_loop_dense(sortedEs, i, prev, prev_rank, acc) ==
    IF i > Len(sortedEs) THEN acc
    ELSE LET e == sortedEs[i]
             metrics == _entry_rank_metrics(e)
             rank == IF prev # {} /\ metrics \in prev THEN prev_rank
                     ELSE prev_rank + 1
         IN  rank_loop_dense(sortedEs, i + 1, {metrics}, rank,
                             Append(acc, <<rank, e>>))

IsChecklog(e) == e.is_checklog

ZeroRank(es) == [i \in 1..Len(es) |-> <<0, es[i]>>]

\* rank_entries numbering a new tuple prev_rank + 1 instead of its position
rank_entries_dense(es) ==
    rank_loop_dense(sorted_by_rank_key(es), 1, {}, 0, <<>>)
        \o ZeroRank(SelectSeq(es, IsChecklog))

rank_entries(es) ==
    rank_loop(sorted_by_rank_key(es), 1, {}, 0, <<>>)
        \o ZeroRank(SelectSeq(es, IsChecklog))

-----------------------------------------------------------------------------
(* The ranking of the published HTML *)

\* _rank_sort_key: the negated figures, then the callsign
_rank_sort_key(e) ==
    <<-e.recalced_total, -e.recalced_pts, -e.recalced_mult, -e.recalced_qso,
      e.callsign>>

\* sorted(entries, key=_rank_sort_key)
RECURSIVE InsertByRankSortKey(_, _)
InsertByRankSortKey(sortedEs, e) ==
    IF sortedEs = <<>> THEN <<e>>
    ELSE IF KeyLess(_rank_sort_key(e), _rank_sort_key(Head(sortedEs)))
         THEN <<e>> \o sortedEs
         ELSE <<Head(sortedEs)>> \o InsertByRankSortKey(Tail(sortedEs), e)

RECURSIVE SortByRankSortKeyFrom(_, _, _)
SortByRankSortKeyFrom(es, i, acc) ==
    IF i > Len(es) THEN acc
    ELSE SortByRankSortKeyFrom(es, i + 1, InsertByRankSortKey(acc, es[i]))

sorted_by_rank_sort_key(es) == SortByRankSortKeyFrom(es, 1, <<>>)

\* the loop of _competition_ranks; prev_total is None ({}) or {t}, pos is the
\* position of the entry
RECURSIVE competition_loop(_, _, _, _, _)
competition_loop(entries_sorted, pos, prev_total, rank, out) ==
    IF pos > Len(entries_sorted) THEN out
    ELSE LET e == entries_sorted[pos]
             t == e.recalced_total
             new == prev_total = {} \/ t \notin prev_total
         IN  competition_loop(entries_sorted, pos + 1,
                              IF new THEN {t} ELSE prev_total,
                              IF new THEN pos ELSE rank,
                              Append(out, <<IF new THEN pos ELSE rank, e>>))

_competition_ranks(entries_sorted) == competition_loop(entries_sorted, 1, {}, 0, <<>>)

-----------------------------------------------------------------------------
(* SpecRank: rank_entries applied to every list of the bounded input set *)

CallC == <<"J", "A", "1", "C">>
CallD == <<"J", "A", "1", "D">>
CallE == <<"J", "A", "1", "E">>

RankEntry(call, total, pts, mult, qso, checklog) ==
    [StationEntry EXCEPT !.callsign = call,
                         !.recalced_total = total, !.recalced_pts = pts,
                         !.recalced_mult = mult, !.recalced_qso = qso,
                         !.is_checklog = checklog]

RankPool ==
    { RankEntry(CallA, 6, 3, 2, 2, FALSE),
      RankEntry(CallB, 6, 3, 2, 2, FALSE),
      RankEntry(CallC, 6, 6, 1, 3, FALSE),
      RankEntry(CallD, 4, 2, 2, 2, FALSE),
      RankEntry(CallE, 6, 3, 2, 2, TRUE) }

InitRank ==
    /\ pc = "entries"
    /\ rankIn \in DistinctSeqsUpTo(RankPool, MaxEntries)
    /\ ranked = <<>>
    /\ entry = StationEntry
    /\ line = <<>> /\ rec = <<>> /\ exported = <<>> /\ rec2 = <<>>
    /\ input = <<>> /\ output = <<>>
    /\ entries = <<>> /\ overrides = <<>> /\ folder = <<>> /\ errors = <<>>

RankEntries ==
    /\ pc = "entries"
    /\ ranked' = rank_entries(rankIn)
    /\ pc' = "ranked"
    /\ UNCHANGED <<entry, rankIn, line, rec, exported, rec2,
                   entries, overrides, folder, errors, input, output>>

\* entries_all of the publishing handler: the entries that are not checklogs
IsCompetitor(e) == ~e.is_checklog

\* the overall table of the published HTML: sorted with _rank_sort_key and
\* numbered by _competition_ranks
PublishRanks ==
    /\ pc = "ranked"
    /\ output' = _competition_ranks(sorted_by_rank_sort_key(SelectSeq(rankIn, IsCompetitor)))
    /\ pc' = "published"
    /\ UNCHANGED <<entry, rankIn, ranked, line, rec, exported, rec2,
                   entries, overrides, folder, errors, input>>

NextRank == RankEntries \/ PublishRanks

SpecRank == InitRank /\ [][NextRank]_vars

-----------------------------------------------------------------------------
(* Properties of rank_entries *)

Ranked == pc = "ranked"

NoChecklogIn == \A i \in 1..Len(rankIn) : ~rankIn[i].is_checklog

\* (total, points, mult, qso) of a is strictly better than that of b
StrictlyBetter(a, b) ==
    \/ a.recalced_total > b.recalced_total
    \/ /\ a.recalced_total = b.recalced_total
       /\ \/ a.recalced_pts > b.recalced_pts
          \/ /\ a.recalced_pts = b.recalced_pts
             /\ \/ a.recalced_mult > b.recalced_mult
                \/ /\ a.recalced_mult = b.recalced_mult
                   /\ a.recalced_qso > b.recalced_qso

BetterCount(e) ==
    Cardinality({j \in 1..Len(rankIn) : StrictlyBetter(rankIn[j], e)})

\* C4: without checklog entries, every entry of the input is ranked once, at
\* 1 + the number of entries with a strictly better (total, points, mult, qso):
\* equal tuples share a rank and the next tuple resumes at its position.
C4_CompetitionRank ==
    (Ranked /\ NoChecklogIn) =>
        /\ Len(ranked) = Len(rankIn)
        /\ {ranked[i][2] : i \in 1..Len(ranked)} = {rankIn[i] : i \in 1..Len(rankIn)}
        /\ \A i \in 1..Len(ranked) : ranked[i][1] = 1 + BetterCount(ranked[i][2])

C4_Witness ==
    /\ Ranked /\ NoChecklogIn
    /\ Len(ranked) = 3
    /\ ranked[1][1] = 1 /\ ranked[2][1] = 1 /\ ranked[3][1] = 3
    /\ ranked[1][2].callsign = CallA /\ ranked[2][2].callsign = CallB
    /\ rankIn[1].callsign = CallD

BetterCompetitors(e) ==
    Cardinality({j \in 1..Len(rankIn) :
                    ~rankIn[j].is_checklog /\ StrictlyBetter(rankIn[j], e)})

\* C12: in the output of rank_entries a checklog entry appears once, with the
\* rank 0, and the rank of every other entry counts only the entries that are
\* not checklog entries.
C12_ChecklogUnranked ==
    Ranked =>
        \A i \in 1..Len(ranked) :
            IF ranked[i][2].is_checklog
            THEN /\ ranked[i][1] = 0
                 /\ \A j \in 1..Len(ranked) : ranked[j][2] = ranked[i][2] => j = i
            ELSE ranked[i][1] = 1 + BetterCompetitors(ranked[i][2])

\* a comes before b in the published order
Precedes(a, b) ==
    \/ StrictlyBetter(a, b)
    \/ /\ ~StrictlyBetter(b, a)
       /\ StrLess(a.callsign, b.callsign)

Permuted(es, p) == [i \in 1..Len(es) |-> es[p[i]]]

\* C16: for entries with distinct callsigns and no checklog flag, the output
\* of rank_entries is in the order total descending, points descending,
\* multiplier descending, QSO count descending, callsign ascending, and
\* rank_entries returns the same list for every permutation of its input.
C16_OrderIsSortKey ==
    (Ranked /\ NoChecklogIn) =>
        /\ \A i, j \in 1..Len(ranked) :
              i < j => Precedes(ranked[i][2], ranked[j][2])
        /\ \A p \in Permutations(1..Len(rankIn)) :
              rank_entries(Permuted(rankIn, p)) = ranked

\* two entries with equal figures given in descending callsign order come out
\* in ascending callsign order, behind an entry given last
C16_Witness ==
    /\ Ranked /\ NoChecklogIn
    /\ Len(rankIn) = 3
    /\ rankIn[1].callsign = CallB /\ rankIn[2].callsign = CallA
    /\ rankIn[3].callsign = CallC
    /\ ranked[1][2].callsign = CallC
    /\ ranked[2][2].callsign = CallA /\ ranked[3][2].callsign = CallB

-----------------------------------------------------------------------------
(* top_n_with_ties *)

\* the loop of top_n_with_ties over the ranked list; returning out is the break
RECURSIVE top_loop(_, _, _, _, _)
top_loop(rankedEs, i, n, cutoff_metrics, out) ==
    IF i > Len(rankedEs) THEN out
    ELSE IF Len(out) < n
         THEN top_loop(rankedEs, i + 1, n, cutoff_metrics, Append(out, rankedEs[i]))
    ELSE IF _entry_rank_metrics(rankedEs[i][2]) = cutoff_metrics
         THEN top_loop(rankedEs, i + 1, n, cutoff_metrics, Append(out, rankedEs[i]))
    ELSE out

\* top_n_with_ties cutting at n whatever follows
top_of_cut(rankedEs, n) ==
    IF n <= 0 \/ rankedEs = <<>> THEN <<>>
    ELSE IF Len(rankedEs) <= n THEN rankedEs
    ELSE SubSeq(rankedEs, 1, n)

\* top_n_with_ties after ranked = rank_entries(entries)
top_of(rankedEs, n) ==
    IF n <= 0 \/ rankedEs = <<>> THEN <<>>
    ELSE IF Len(rankedEs) <= n THEN rankedEs
    ELSE top_loop(rankedEs, 1, n, _entry_rank_metrics(rankedEs[n][2]), <<>>)

top_n_with_ties(es, n) == top_of(rank_entries(es), n)

-----------------------------------------------------------------------------
(* SpecTop: top_n_with_ties applied to every list and cutoff of the bounded
   input set *)

CallF == <<"J", "A", "1", "F">>

TopPool == RankPool \cup {RankEntry(CallF, 6, 3, 2, 2, FALSE)}

InitTop ==
    /\ pc = "entries"
    /\ input \in [entries : DistinctSeqsUpTo(TopPool, MaxEntries), n : (-1)..MaxEntries]
    /\ output = <<>>
    /\ entry = StationEntry
    /\ rankIn = <<>> /\ ranked = <<>>
    /\ line = <<>> /\ rec = <<>> /\ exported = <<>> /\ rec2 = <<>>
    /\ entries = <<>> /\ overrides = <<>> /\ folder = <<>> /\ errors = <<>>

TopN ==
    /\ pc = "entries"
    /\ output' = top_n_with_ties(input.entries, input.n)
    /\ pc' = "top"
    /\ UNCHANGED <<input, entry, rankIn, ranked, line, rec, exported, rec2,
                   entries, overrides, folder, errors>>

NextTop == TopN

SpecTop == InitTop /\ [][NextTop]_vars

\* two entries have the same (total, points, mult, qso)
SameFigures(a, b) ==
    /\ a.recalced_total = b.recalced_total /\ a.recalced_pts = b.recalced_pts
    /\ a.recalced_mult = b.recalced_mult /\ a.recalced_qso = b.recalced_qso

IsPrefixOf(a, b) == Len(a) <= Len(b) /\ \A i \in 1..Len(a) : a[i] = b[i]

TopHolds(rankedEs, n, out) ==
    /\ IsPrefixOf(out, rankedEs)
    /\ n <= 0 => out = <<>>
    /\ Len(rankedEs) <= n => out = rankedEs
    /\ (n > 0 /\ Len(rankedEs) > n) =>
          /\ Len(out) >= n
          /\ \A i \in (n + 1)..Len(out) : SameFigures(out[i][2], rankedEs[n][2])
          /\ Len(out) < Len(rankedEs)
                => ~SameFigures(rankedEs[Len(out) + 1][2], rankedEs[n][2])

\* C11: top_n_with_ties returns a prefix of the ranked list: nothing for
\* n <= 0, the whole list when it has at most n elements, and otherwise the
\* first n elements followed by every next element whose (total, points, mult,
\* qso) equals that of the n-th, up to the first element where it differs.
C11_TopNWithTies ==
    pc = "top" => TopHolds(rank_entries(input.entries), input.n, output)

\* three entries tied for rank 1 all come back on a cutoff of 2
C11_Witness ==
    /\ pc = "top"
    /\ input.n = 2
    /\ Len(input.entries) = 3
    /\ \A i \in 1..3 : ~input.entries[i].is_checklog
    /\ Len(output) = 3
    /\ \A i \in 1..3 : output[i][1] = 1

-----------------------------------------------------------------------------
(* Line parser (canonical tabular format) and the export to that format *)

RST_PREFIXES == << <<"5", "9">>, <<"5", "7">>, <<"5", "5">>, <<"5", "8">>, <<"5", "6">> >>

IsRst(tok) == \E i \in 1..Len(RST_PREFIXES) : RST_PREFIXES[i] = tok

\* str.isdigit() and re.fullmatch(r"\d+", s)
IsDigits(s) == s # <<>> /\ AllDigits(s)

\* _extract_exchange_from_token
_extract_exchange_from_token(tok) ==
    LET s == Strip(tok)
        hits == {i \in 1..Len(RST_PREFIXES) :
                    StartsWith(s, RST_PREFIXES[i]) /\ Len(s) > Len(RST_PREFIXES[i])}
    IN  IF s = <<>> \/ s = <<"-">> THEN <<>>
        ELSE IF IsRst(s) THEN <<>>
        ELSE IF hits # {}
             THEN LET rst == RST_PREFIXES[CHOOSE i \in hits : \A j \in hits : i <= j]
                  IN  OnlyDigits(SubSeq(s, Len(rst) + 1, Len(s)))
             ELSE OnlyDigits(s)

\* _parse_band_mhz
_parse_band_mhz(tok) ==
    Strip(RemoveAll(RemoveAll(Strip(tok), <<"M", "H", "z">>), <<"m", "h", "z">>))

\* _canon_band_token: a whole number written with a zero fraction loses it
_canon_band_token(tok) ==
    LET s == Strip(_parse_band_mhz(tok))
        dots == {i \in 1..Len(s) : s[i] = "."}
        dot == CHOOSE i \in dots : TRUE
        ip == SubSeq(s, 1, dot - 1)
        fp == SubSeq(s, dot + 1, Len(s))
    IN  IF s = <<>> THEN <<>>
        ELSE IF IsDigits(s) THEN DropLeadingZeros(s)
        ELSE IF Cardinality(dots) = 1 /\ IsDigits(ip) /\ IsDigits(fp)
             THEN (IF \A i \in 1..Len(fp) : fp[i] = "0"
                   THEN DropLeadingZeros(ip) ELSE s)
             ELSE s

IsHHMM(s) ==
    /\ Len(s) = 5
    /\ s[1] \in Digits /\ s[2] \in Digits /\ s[3] = ":"
    /\ s[4] \in Digits /\ s[5] \in Digits

IsFourDigits(s) == Len(s) = 4 /\ AllDigits(s)

\* _parse_time
_parse_time(tok) ==
    LET s == Strip(tok)
    IN  IF tok = <<>> THEN <<>>
        ELSE IF IsHHMM(s) THEN s
        ELSE IF IsFourDigits(s) THEN SubSeq(s, 1, 2) \o <<":">> \o SubSeq(s, 3, 4)
        ELSE s

\* _looks_date: \d{4}[-/]\d{2}[-/]\d{2}
_looks_date(tok) ==
    LET s == Strip(tok)
    IN  /\ Len(s) = 10
        /\ \A i \in {1, 2, 3, 4, 6, 7, 9, 10} : s[i] \in Digits
        /\ s[5] \in {"-", "/"} /\ s[8] \in {"-", "/"}

\* _looks_time
_looks_time(tok) == LET s == Strip(tok) IN IsHHMM(s) \/ IsFourDigits(s)

\* _clean_callsign
_clean_callsign(call) == IF call = <<>> THEN <<>> ELSE Upper(Strip(call))

CallChars == {UpperLetters[i] : i \in 1..26} \cup Digits \cup {"/"}

\* _looks_callsign: [A-Z0-9/]+ with at least one letter
_looks_callsign(tok) ==
    LET s == Upper(Strip(tok))
    IN  /\ s # <<>>
        /\ \A i \in 1..Len(s) : s[i] \in CallChars
        /\ \E i \in 1..Len(s) : s[i] \in {UpperLetters[k] : k \in 1..26}

\* re.search(r"\s0\s*$", s) for a stripped line: its last token is "0"
EndsWithZeroToken(s) ==
    Len(s) >= 2 /\ s[Len(s)] = "0" /\ s[Len(s) - 1] \in Whitespace

HasDupMarker(s) ==
    Contains(Lower(s), <<"d", "u", "p", "e">>) \/ Contains(Lower(s), <<"d", "u", "p">>)

Front(toks, k) == SubSeq(toks, 1, Len(toks) - k)

\* _take_pts_from_tail: the points and the tokens left
_take_pts_from_tail(tokens, raw_line) ==
    LET n == Len(tokens)
        tail == Strip(RemoveAll(tokens[n], <<",">>))
        tail2 == Strip(RemoveAll(tokens[n - 1], <<",">>))
    IN  IF tokens = <<>> THEN [pts |-> 2, rest |-> tokens]
        ELSE IF IsDigits(tail) THEN [pts |-> ParseInt(tail), rest |-> Front(tokens, 1)]
        ELSE IF /\ n >= 2
                /\ Lower(tokens[n]) \in {<<"d", "u", "p", "e">>, <<"d", "u", "p">>}
                /\ IsDigits(tail2)
             THEN [pts |-> ParseInt(tail2), rest |-> Front(tokens, 2)]
        ELSE IF EndsWithZeroToken(raw_line) THEN [pts |-> 0, rest |-> tokens]
        ELSE [pts |-> 2, rest |-> tokens]

\* exchange_tokens taking the first two tokens whatever they are
exchange_tokens_first_two(rest) ==
    [sent |-> IF Len(rest) >= 1 THEN rest[1] ELSE <<>>,
     rcvd |-> IF Len(rest) >= 2 THEN rest[2] ELSE <<>>]

\* the sent and received tokens chosen by the positions of the RST codes
exchange_tokens(rest) ==
    LET idx == {i \in 1..Len(rest) : IsRst(rest[i])}
        i1 == CHOOSE i \in idx : \A j \in idx : i <= j
        i2 == CHOOSE i \in idx \ {i1} : \A j \in idx \ {i1} : i <= j
        at(k) == IF k >= 1 /\ k <= Len(rest) THEN rest[k] ELSE <<>>
    IN  IF Cardinality(idx) >= 2 THEN [sent |-> at(i1 + 1), rcvd |-> at(i2 + 1)]
        ELSE IF Cardinality(idx) = 1 THEN [sent |-> at(i1 - 1), rcvd |-> at(i1 + 1)]
        ELSE [sent |-> at(1), rcvd |-> at(2)]

\* the body of the loop of parse_logsheet_ctestwin: the records of one raw line
ctestwin_line(raw) ==
    LET s == Strip(raw)
        parts == Split(s)
        mode == IF IsDigits(parts[4]) /\ _looks_callsign(parts[5])
                THEN <<"A", "M">> ELSE parts[4]
        taken == _take_pts_from_tail(SubSeq(parts, 6, Len(parts)), s)
        ex == exchange_tokens(taken.rest)
        pts == IF taken.pts <= 0
               THEN (IF EndsWithZeroToken(s) \/ HasDupMarker(s) THEN 0 ELSE 2)
               ELSE taken.pts
    IN  IF s = <<>> THEN <<>>
        ELSE IF \/ StartsWith(s, <<"D", "A", "T", "E">>)
                \/ StartsWith(s, <<"-", "-", "-">>)
                \/ StartsWith(s, <<"D", "a", "t", "e">>) THEN <<>>
        ELSE IF Len(parts) < 6 THEN <<>>
        ELSE IF ~_looks_date(parts[1]) \/ ~_looks_time(parts[2]) THEN <<>>
        ELSE << QsoRecord(ReplaceChar(parts[1], "/", "-"),
                          _parse_time(parts[2]),
                          _parse_band_mhz(parts[3]),
                          mode,
                          _clean_callsign(parts[5]),
                          _canon_exchange(_extract_exchange_from_token(ex.sent)),
                          _canon_exchange(_extract_exchange_from_token(ex.rcvd)),
                          pts) >>

RECURSIVE parse_logsheet_ctestwin(_)
parse_logsheet_ctestwin(lines) ==
    IF lines = <<>> THEN <<>>
    ELSE ctestwin_line(Head(lines)) \o parse_logsheet_ctestwin(Tail(lines))

OrElse(s, default) == IF s = <<>> THEN default ELSE s

\* qso_to_ctestwin_line: DATE TIME BAND MODE CALL 59 SENT 59 RCVD PTS
qso_to_ctestwin_line(q) ==
    JoinSpace(<< Strip(ReplaceChar(q.date, "/", "-")),
                 Strip(_parse_time(q.time)),
                 OrElse(_canon_band_token(q.band_mhz), <<"5", "0">>),
                 Upper(Strip(OrElse(q.mode, <<"A", "M">>))),
                 _clean_callsign(q.worked_call),
                 <<"5", "9">>,
                 OrElse(_canon_exchange(q.sent_exch), <<"-">>),
                 <<"5", "9">>,
                 OrElse(_canon_exchange(q.rcvd_exch), <<"-">>),
                 IntToStr(q.pts) >>)

\* the lines replace_logsheet_with_ctestwin writes for the contacts of an entry
export_lines(qsos) == [i \in 1..Len(qsos) |-> qso_to_ctestwin_line(qsos[i])]

-----------------------------------------------------------------------------
(* SpecParse: one raw line is parsed, exported and parsed again *)

TDate == SDate
TDateSlash == <<"2", "0", "2", "5", "/", "0", "5", "/", "0", "5">>
THHMM == STime
T1000 == <<"1", "0", "0", "0">>
TBadTime == <<"1", "0", "h", "0", "0">>
T50MHz == <<"5", "0", "M", "H", "z">>
TCallLower == <<"j", "a", "1", "b">>
T59 == <<"5", "9">>
TDup == <<"d", "u", "p">>

\* DATE TIME BAND MODE CALL
HeadPool ==
    { <<TDate, THHMM, S50, SAM, CallA>>,
      <<TDateSlash, T1000, T50MHz, <<"2">>, TCallLower>>,
      <<TDate, TBadTime, S50, SAM, CallA>> }

\* an RST code in front of an exchange, or none
RstPool == {<<>>, <<T59>>}

SentPool == {<<"5">>, <<"5", "9", "5", "9">>, <<"-">>}

RcvdPool == {<<"1", "2">>, <<"0", "5", "9">>, <<"5", "9", "1", "2">>, <<"5", "7">>}

\* the end of the line: points, a dup marker, both or neither
TailPool == {<<>>, << <<"2">> >>, << <<"0">> >>, << <<"1">>, TDup >>, <<TDup>>}

LinePool ==
    {JoinSpace(h \o r1 \o <<sx>> \o r2 \o <<rx>> \o t) :
        h \in HeadPool, r1 \in RstPool, sx \in SentPool,
        r2 \in RstPool, rx \in RcvdPool, t \in TailPool}

InitParse ==
    /\ pc = "raw"
    /\ line \in LinePool
    /\ rec = <<>> /\ exported = <<>> /\ rec2 = <<>>
    /\ input = <<>> /\ output = <<>>
    /\ entry = StationEntry
    /\ rankIn = <<>> /\ ranked = <<>>
    /\ entries = <<>> /\ overrides = <<>> /\ folder = <<>> /\ errors = <<>>

\* parse_logsheet_ctestwin on the raw line
ParseLine ==
    /\ pc = "raw"
    /\ rec' = parse_logsheet_ctestwin(<<line>>)
    /\ pc' = "parsed"
    /\ UNCHANGED <<entry, rankIn, ranked, line, exported, rec2,
                   entries, overrides, folder, errors, input, output>>

\* the new LOGSHEET body of replace_logsheet_with_ctestwin
ExportLog ==
    /\ pc = "parsed"
    /\ exported' = export_lines(rec)
    /\ pc' = "exported"
    /\ UNCHANGED <<entry, rankIn, ranked, line, rec, rec2,
                   entries, overrides, folder, errors, input, output>>

\* parse_logsheet_ctestwin on the exported lines
ReparseLog ==
    /\ pc = "exported"
    /\ rec2' = parse_logsheet_ctestwin(exported)
    /\ pc' = "reparsed"
    /\ UNCHANGED <<entry, rankIn, ranked, line, rec, exported,
                   entries, overrides, folder, errors, input, output>>

NextParse == ParseLine \/ ExportLog \/ ReparseLog

SpecParse == InitParse /\ [][NextParse]_vars

-----------------------------------------------------------------------------
(* Properties of the parser and the export *)

ContactTuple(q) ==
    <<q.worked_call, q.band_mhz, q.mode, q.sent_exch, q.rcvd_exch, q.pts>>

TupleSet(qs) == {ContactTuple(qs[i]) : i \in 1..Len(qs)}

\* C5: the contacts parsed from the exported lines have the same set of
\* (callsign, band, mode, sent, rcvd, pts) tuples as the contacts exported.
C5_RoundTrip == (pc = "reparsed") => TupleSet(rec2) = TupleSet(rec)

-----------------------------------------------------------------------------
(* Submission block extractor.  A submission text is modelled by the regions *)
(* the regular expressions of split_submission_blocks, _find_tag and         *)
(* parse_summarysheet take from it: whether a SUMMARYSHEET block is there,   *)
(* the contents of its CALLSIGN, SCORE, TOTALSCORE, ADDRESS and OPPLACE tags *)
(* ({} when the tag is missing) and the lines of the LOGSHEET block.         *)

\* a submission without ADDRESS and OPPLACE tags
Submission(has_summary, callsign, score, totalscore, lines) ==
    [has_summary |-> has_summary, callsign |-> callsign, score |-> score,
     totalscore |-> totalscore, address |-> None, opplace |-> None, lines |-> lines]

\* the submission with the given contents of its ADDRESS and OPPLACE tags
Located(sub, address, opplace) == [sub EXCEPT !.address = address, !.opplace = opplace]

\* re.sub(r"[ \t]+", " ", x.strip()).strip()
RECURSIVE CollapseSpaces(_)
CollapseSpaces(s) ==
    IF s = <<>> THEN <<>>
    ELSE IF Head(s) \in Whitespace
         THEN <<" ">> \o CollapseSpaces(LStrip(s))
         ELSE <<Head(s)>> \o CollapseSpaces(Tail(s))

_strip_tags_text(x) == Strip(CollapseSpaces(Strip(x)))

\* _find_tag(...) or "": the stripped content of the tag, "" when it is missing
tag_or_empty(tag) == IF tag = None THEN <<>> ELSE _strip_tags_text(Val(tag))

\* s.split(",")
RECURSIVE SplitCommaFrom(_, _, _)
SplitCommaFrom(s, cur, acc) ==
    IF s = <<>> THEN Append(acc, cur)
    ELSE IF Head(s) = "," THEN SplitCommaFrom(Tail(s), <<>>, Append(acc, cur))
    ELSE SplitCommaFrom(Tail(s), Append(cur, Head(s)), acc)

SplitComma(s) == SplitCommaFrom(s, <<>>, <<>>)

\* int(s) of a stripped text: None ({}) where Python raises ValueError
int_or_none(s) ==
    IF IsDigits(s) THEN Some(ParseInt(s))
    ELSE IF Len(s) >= 2 /\ Head(s) = "-" /\ IsDigits(Tail(s)) THEN Some(-ParseInt(Tail(s)))
    ELSE IF Len(s) >= 2 /\ Head(s) = "+" /\ IsDigits(Tail(s)) THEN Some(ParseInt(Tail(s)))
    ELSE None

\* _to_int of _parse_score_triplet
_to_int(x) ==
    LET t == Strip(RemoveAll(x, <<",">>))
    IN  IF t = <<>> \/ t = <<"-">> THEN None ELSE int_or_none(t)

\* _parse_score_triplet, from the parts of score_text.split(",")
triplet_of(parts) ==
    IF Len(parts) < 3 THEN <<None, None, None>>
    ELSE <<_to_int(Strip(parts[1])), _to_int(Strip(parts[2])), _to_int(Strip(parts[3]))>>

_parse_score_triplet(score_text) ==
    IF score_text = <<>> THEN <<None, None, None>> ELSE triplet_of(SplitComma(score_text))

\* _safe_int applied to the text of a tag ({} when the tag is missing)
int_or_default(n, default) == IF n = None THEN default ELSE Val(n)

_safe_int_text(x, default) ==
    IF x = None THEN default ELSE int_or_default(_to_int(Val(x)), default)

\* parse_summarysheet: the fields build_station_entry_from_text reads
summary_dict(callsign, triplet, totalscore, address, opplace) ==
    [callsign |-> callsign,
     address |-> address,
     opplace |-> opplace,
     claimed_qso |-> triplet[1],
     claimed_pts |-> triplet[2],
     claimed_mult |-> triplet[3],
     claimed_total |-> Some(totalscore)]

parse_summarysheet(sub) ==
    summary_dict(_clean_callsign(tag_or_empty(sub.callsign)),
                 _parse_score_triplet(tag_or_empty(sub.score)),
                 _safe_int_text(sub.totalscore, 0),
                 tag_or_empty(sub.address),
                 tag_or_empty(sub.opplace))

\* parse_logsheet_block: the submissions of the model declare TYPE=CTESTWIN,
\* which parse_logsheet_generic hands to parse_logsheet_ctestwin
parse_logsheet_block(lines) == parse_logsheet_ctestwin(lines)

CHECKLOG_CALLSIGNS == {<<>>}

\* summary_opplace taking the OPPLACE text whatever it says
summary_opplace_as_written(sd, fallback_opplace) ==
    IF Strip(fallback_opplace) # <<>>
    THEN normalize_opplace_any(Strip(fallback_opplace), sd.address)
    ELSE normalize_opplace_any(sd.opplace, sd.address)

\* the operating place of the branch with a summary block: the address stands
\* for an OPPLACE that means home, and a place given by the caller replaces both
summary_opplace(sd, fallback_opplace) ==
    IF Strip(fallback_opplace) # <<>>
    THEN normalize_opplace_any(Strip(fallback_opplace), sd.address)
    ELSE normalize_opplace_any(IF _opplace_means_home(sd.opplace) THEN sd.address
                               ELSE sd.opplace,
                               sd.address)

\* build_station_entry_from_text, the branch with a summary block
entry_from_summary(e, sd, fallback_callsign, fallback_opplace) ==
    [e EXCEPT !.callsign = IF sd.callsign # <<>> THEN sd.callsign ELSE fallback_callsign,
              !.address = sd.address,
              !.opplace = summary_opplace(sd, fallback_opplace),
              !.claimed_qso = sd.claimed_qso,
              !.claimed_pts = sd.claimed_pts,
              !.claimed_mult = sd.claimed_mult,
              !.claimed_total = sd.claimed_total]

\* build_station_entry_from_text up to the callsign check
named_entry(sub, fallback_callsign, fallback_opplace, source_name) ==
    IF sub.has_summary
    THEN entry_from_summary([StationEntry EXCEPT !.source_name = source_name,
                                                 !.raw_submission_text = sub],
                            parse_summarysheet(sub), fallback_callsign, fallback_opplace)
    ELSE [StationEntry EXCEPT !.source_name = source_name,
                              !.raw_submission_text = sub,
                              !.callsign = _clean_callsign(fallback_callsign),
                              !.opplace = normalize_opplace_any(Strip(fallback_opplace), <<>>)]

with_checklog(e) == [e EXCEPT !.is_checklog = (e.callsign \in CHECKLOG_CALLSIGNS)]

\* build_station_entry_from_text from the callsign check on
checked_entry(e, lines) ==
    IF e.callsign = <<>> THEN [ok |-> FALSE, entry |-> e]
    ELSE [ok |-> TRUE,
          entry |-> with_checklog(recalc_entry([e EXCEPT !.qsos = parse_logsheet_block(lines)]))]

\* build_station_entry_from_text: ok = FALSE stands for the ValueError raised
build_station_entry_from_text(sub, fallback_callsign, fallback_opplace, source_name) ==
    checked_entry(named_entry(sub, fallback_callsign, fallback_opplace, source_name),
                  sub.lines)

-----------------------------------------------------------------------------
(* The submissions the application is given *)

TJA1C == <<"J", "A", "1", "C">>
TJA1D == <<"J", "A", "1", "D">>

LineC == JoinSpace(<<TDate, THHMM, S50, SAM, TJA1C, T59, <<"5">>, T59, <<"1", "2">>, <<"2">> >>)
LineD == JoinSpace(<<TDate, THHMM, S50, SAM, TJA1D, T59, <<"5">>, T59, <<"1", "3">>, <<"2">> >>)

\* claims 2 QSO, 4 points, 2 multipliers, total 8: what its log gives; operated
\* from the address
SubA1 ==
    Located(Submission(TRUE, Some(CallA), Some(<<"2", ",", "4", ",", "2">>), Some(<<"8">>),
                       <<LineC, LineD>>),
            Some(AddrYokohama), Some(OpSameAsAbove))

\* the same station in lower case, with a total its log does not give; operated
\* from another city
SubA2 ==
    Located(Submission(TRUE, Some(<<" ", "j", "a", "1", "a">>),
                       Some(<<"1", ",", "2", ",", "1">>), Some(<<"9">>), <<LineC>>),
            Some(AddrYokohama), Some(OpChiba))

\* no SCORE and no TOTALSCORE tag, a repeated contact
SubB == Submission(TRUE, Some(CallB), None, None, <<LineC, LineC>>)

\* a summary whose CALLSIGN tag is blank
SubNoCall ==
    Submission(TRUE, Some(<<" ">>), Some(<<"1", ",", "2", ",", "1">>), Some(<<"2">>),
               <<LineD>>)

\* a log without a SUMMARYSHEET block
SubNoSummary == Submission(FALSE, None, None, None, <<LineC>>)

\* the files a folder may hold, the texts that may be pasted
FilePool == {SubA1, SubA2, SubNoCall, SubNoSummary}
PastePool == {SubB, SubNoCall, SubNoSummary}

\* the callsign typed beside the pasted text
TypedCallPool == {<<>>, <<"j", "a", "1", "b">>}

\* the place typed beside the pasted text
TypedPlacePool == {<<>>, TypedKawasaki}

\* build_station_entry_from_text over the inputs above, computed once
BuildTable ==
    [sub \in FilePool \cup PastePool,
     fb \in {<<>>} \cup {_clean_callsign(t) : t \in TypedCallPool},
     place \in {Strip(t) : t \in TypedPlacePool},
     src \in {"file", "paste"} |-> build_station_entry_from_text(sub, fb, place, src)]

built_from(sub, fallback_callsign, fallback_opplace, source_name) ==
    BuildTable[sub, fallback_callsign, fallback_opplace, source_name]

-----------------------------------------------------------------------------
(* The application: the entry collection and the persisted overrides *)

\* a dict: the empty one, and d[k] = v
EmptyDict == <<>>

Put(d, k, v) == (k :> v) @@ d

\* one record of manual_overrides.json
OverrideRecord(enabled, qso, pts, mult, total, note, opplace) ==
    [enabled |-> enabled, qso |-> qso, pts |-> pts, mult |-> mult,
     total |-> total, note |-> note, opplace |-> opplace]

\* apply_overrides_to_entries setting the fields without recalc_entry
apply_overrides_without_recalc(es, data) ==
    [cs \in DOMAIN es |->
        IF cs \in DOMAIN data
        THEN [es[cs] EXCEPT !.manual_enabled = data[cs].enabled,
                            !.manual_qso = data[cs].qso,
                            !.manual_pts = data[cs].pts,
                            !.manual_mult = data[cs].mult,
                            !.manual_total = data[cs].total,
                            !.manual_note = data[cs].note,
                            !.manual_opplace = data[cs].opplace]
        ELSE es[cs]]

\* apply_overrides_to_entries: every entry with a persisted record takes its
\* fields and is recomputed
apply_overrides_to_entries(es, data) ==
    [cs \in DOMAIN es |->
        IF cs \in DOMAIN data
        THEN recalc_entry([es[cs] EXCEPT
                              !.manual_enabled = data[cs].enabled,
                              !.manual_qso = data[cs].qso,
                              !.manual_pts = data[cs].pts,
                              !.manual_mult = data[cs].mult,
                              !.manual_total = data[cs].total,
                              !.manual_note = data[cs].note,
                              !.manual_opplace = data[cs].opplace])
        ELSE es[cs]]

\* save_overrides: the file is rewritten from the entries with an enabled override
save_overrides(es) ==
    [cs \in {c \in DOMAIN es : es[c].manual_enabled} |->
        OverrideRecord(TRUE, es[cs].manual_qso, es[cs].manual_pts,
                       es[cs].manual_mult, es[cs].manual_total, es[cs].manual_note,
                       es[cs].manual_opplace)]

\* new_entries after one file of on_reload's loop
after_file(new_entries, built) ==
    IF built.ok /\ built.entry.callsign # <<>>
    THEN Put(new_entries, built.entry.callsign, built.entry)
    ELSE new_entries

\* the loop of on_reload over the sorted files: a file that raises is recorded
\* in errors and the loop goes on
RECURSIVE reload_loop(_, _, _, _)
reload_loop(files, i, new_entries, errs) ==
    IF i > Len(files) THEN [new_entries |-> new_entries, errors |-> errs]
    ELSE reload_loop(files, i + 1,
                     after_file(new_entries, built_from(files[i], <<>>, <<>>, "file")),
                     IF built_from(files[i], <<>>, <<>>, "file").ok THEN errs
                     ELSE Append(errs, i))

\* the loop of on_reload with the try around the whole loop
RECURSIVE reload_loop_stops(_, _, _, _)
reload_loop_stops(files, i, new_entries, errs) ==
    IF i > Len(files) THEN [new_entries |-> new_entries, errors |-> errs]
    ELSE IF built_from(files[i], <<>>, <<>>, "file").ok
         THEN reload_loop_stops(files, i + 1,
                                after_file(new_entries, built_from(files[i], <<>>, <<>>, "file")),
                                errs)
         ELSE [new_entries |-> new_entries, errors |-> Append(errs, i)]

read_files_stops(files) == reload_loop_stops(files, 1, EmptyDict, <<>>)

\* the files of the folder read by on_reload: new_entries and errors
read_files(files) == reload_loop(files, 1, EmptyDict, <<>>)

recheck_checklog(es) ==
    [cs \in DOMAIN es |->
        [es[cs] EXCEPT !.is_checklog = (es[cs].callsign \in CHECKLOG_CALLSIGNS)]]

-----------------------------------------------------------------------------
(* Spec: the handlers of the application over bounded inputs.
   folder and errors are the files and the errors of the on_reload call that
   has just returned; they are empty after any other handler. *)

\* what the manual edit dialog is saved with
ManualFormPool ==
    { OverrideRecord(TRUE, None, Some(3), None, None, <<"n">>, ManualKamakura),
      OverrideRecord(FALSE, Some(2), None, Some(1), Some(8), <<>>, <<>>) }

\* manual_overrides.json as found at start: missing, or left by an earlier session
StoredOverridesPool ==
    { EmptyDict,
      Put(EmptyDict, CallA, OverrideRecord(TRUE, None, None, Some(1), None, <<>>, <<>>)) }

Init ==
    /\ pc = "init"
    /\ entries = EmptyDict
    /\ overrides \in StoredOverridesPool
    /\ folder = <<>> /\ errors = <<>>
    /\ entry = StationEntry
    /\ rankIn = <<>> /\ ranked = <<>>
    /\ line = <<>> /\ rec = <<>> /\ exported = <<>> /\ rec2 = <<>>
    /\ input = <<>> /\ output = <<>>

\* App.on_reload with the folder holding the given files
\* on_reload assigning new_entries to self.entries instead of updating it
Reloaded_replacing(files, got) ==
    /\ entries' = recheck_checklog(apply_overrides_to_entries(got.new_entries, overrides))
    /\ folder' = files
    /\ errors' = got.errors
    /\ pc' = "reload"
    /\ UNCHANGED <<overrides, entry, rankIn, ranked, line, rec, exported, rec2, input, output>>

Reloaded(files, got) ==
    /\ entries' = recheck_checklog(
                      apply_overrides_to_entries(got.new_entries @@ entries, overrides))
    /\ folder' = files
    /\ errors' = got.errors
    /\ pc' = "reload"
    /\ UNCHANGED <<overrides, entry, rankIn, ranked, line, rec, exported, rec2, input, output>>

OnReload(files) == Reloaded(files, read_files(files))

\* the callsign on_add_paste resolves: the typed one, else the summary's
paste_callsign(text, typed) ==
    IF _clean_callsign(typed) # <<>> THEN _clean_callsign(typed)
    ELSE IF text.has_summary THEN _clean_callsign(parse_summarysheet(text).callsign)
    ELSE <<>>

\* App.on_add_paste; without a callsign it returns after a warning
Pasted(built) ==
    /\ built.ok
    /\ entries' = apply_overrides_to_entries(
                     Put(entries, built.entry.callsign, built.entry), overrides)
    /\ pc' = "paste"
    /\ folder' = <<>> /\ errors' = <<>>
    /\ UNCHANGED <<overrides, entry, rankIn, ranked, line, rec, exported, rec2, input, output>>

PasteAs(text, callsign, opplace) ==
    /\ callsign # <<>>
    /\ Pasted(built_from(text, callsign, opplace, "paste"))

OnAddPaste(text, typed, typed_place) ==
    PasteAs(text, paste_callsign(text, typed), Strip(typed_place))

\* ManualEditDialog._save on the selected entry, then App._on_manual_saved
OnManualSaved(cs, form) ==
    LET edited == recalc_entry([entries[cs] EXCEPT
                                   !.manual_enabled = form.enabled,
                                   !.manual_qso = form.qso,
                                   !.manual_pts = form.pts,
                                   !.manual_mult = form.mult,
                                   !.manual_total = form.total,
                                   !.manual_note = Strip(form.note),
                                   !.manual_opplace = Strip(form.opplace)])
        es1 == [entries EXCEPT ![cs] = edited]
        es2 == [c \in DOMAIN es1 |-> recalc_entry(es1[c])]
    IN  /\ entries' = es2
        /\ overrides' = save_overrides(es2)
        /\ pc' = "manual_saved"
        /\ folder' = <<>> /\ errors' = <<>>
        /\ UNCHANGED <<entry, rankIn, ranked, line, rec, exported, rec2, input, output>>

\* App.on_manual_clear_selected
OnManualClear(cs) ==
    /\ entries[cs].manual_enabled
    /\ LET cleared == recalc_entry([entries[cs] EXCEPT
                                       !.manual_enabled = FALSE,
                                       !.manual_qso = None,
                                       !.manual_pts = None,
                                       !.manual_mult = None,
                                       !.manual_total = None,
                                       !.manual_note = <<>>,
                                       !.manual_opplace = <<>>])
           es1 == [entries EXCEPT ![cs] = cleared]
       IN  /\ entries' = es1
           /\ overrides' = save_overrides(es1)
    /\ pc' = "manual_cleared"
    /\ folder' = <<>> /\ errors' = <<>>
    /\ UNCHANGED <<entry, rankIn, ranked, line, rec, exported, rec2, input, output>>

Next ==
    \/ \E files \in SeqsUpTo(FilePool, MaxFiles) : OnReload(files)
    \/ \E text \in PastePool, typed \in TypedCallPool, typed_place \in TypedPlacePool :
           OnAddPaste(text, typed, typed_place)
    \/ \E cs \in DOMAIN entries, form \in ManualFormPool : OnManualSaved(cs, form)
    \/ \E cs \in DOMAIN entries : OnManualClear(cs)

Spec == Init /\ [][Next]_vars

-----------------------------------------------------------------------------
(* Claims about the application *)

\* the callsign a submission resolves to when the caller supplies no fallback
FileCallsign(sub) ==
    IF sub.has_summary /\ sub.callsign # None
    THEN _clean_callsign(_strip_tags_text(Val(sub.callsign)))
    ELSE <<>>

InErrors(i) == \E k \in DOMAIN errors : errors[k] = i

\* the last file of the folder that resolves to the callsign
LastFileOf(cs) ==
    folder[CHOOSE i \in DOMAIN folder :
              /\ FileCallsign(folder[i]) = cs
              /\ \A j \in DOMAIN folder : FileCallsign(folder[j]) = cs => j <= i]

\* C6: a submission without a resolvable callsign is an error and is never
\* added to the entries: no entry has an empty callsign, every entry is filed
\* under its own callsign, and an entry read from a file comes from a text
\* whose summary gives that callsign.  When on_reload returns, the files
\* without a callsign are exactly the files in errors, and every other file of
\* the folder, before or after a failing one, has its callsign in the entries,
\* holding the text of the last file with that callsign.
C6_BadFileSkippedOthersAdded ==
    /\ \A cs \in DOMAIN entries :
          /\ cs # <<>>
          /\ entries[cs].callsign = cs
          /\ entries[cs].source_name = "file"
                => FileCallsign(entries[cs].raw_submission_text) = cs
    /\ pc = "reload" =>
          \A i \in DOMAIN folder :
             IF FileCallsign(folder[i]) = <<>>
             THEN InErrors(i)
             ELSE /\ ~InErrors(i)
                  /\ FileCallsign(folder[i]) \in DOMAIN entries
                  /\ entries[FileCallsign(folder[i])].raw_submission_text
                        = LastFileOf(FileCallsign(folder[i]))

\* a reload whose first file fails and whose second file is added
C6_Witness ==
    /\ pc = "reload"
    /\ Len(folder) = 2
    /\ FileCallsign(folder[1]) = <<>>
    /\ FileCallsign(folder[2]) # <<>>
    /\ errors = <<1>>
    /\ FileCallsign(folder[2]) \in DOMAIN entries
    /\ entries[FileCallsign(folder[2])].raw_submission_text = folder[2]

\* C14: the entries are merged, never replaced as a whole: a step of the
\* application removes no callsign, and the submission held under a callsign
\* changes only in a reload whose folder holds the new text or in a paste, the
\* new entry carrying that callsign (the last write wins).
C14_EntriesMerged ==
    [][ /\ DOMAIN entries \subseteq DOMAIN entries'
        /\ \A cs \in DOMAIN entries :
              \/ /\ entries'[cs].raw_submission_text = entries[cs].raw_submission_text
                 /\ entries'[cs].source_name = entries[cs].source_name
              \/ /\ pc' = "reload"
                 /\ entries'[cs].callsign = cs
                 /\ entries'[cs].source_name = "file"
                 /\ \E i \in DOMAIN folder' :
                       /\ folder'[i] = entries'[cs].raw_submission_text
                       /\ FileCallsign(folder'[i]) = cs
              \/ /\ pc' = "paste"
                 /\ entries'[cs].callsign = cs
                 /\ entries'[cs].source_name = "paste" ]_vars

\* after a reload of a folder with a good file, the entry pasted before is
\* still there beside the one read from the file
C14_Witness ==
    /\ pc = "reload"
    /\ Len(folder) >= 1
    /\ CallA \in DOMAIN entries /\ entries[CallA].source_name = "file"
    /\ CallB \in DOMAIN entries /\ entries[CallB].source_name = "paste"

\* the entry carries the fields of the override record
CarriesRecord(e, od) ==
    /\ e.manual_enabled = od.enabled
    /\ e.manual_qso = od.qso /\ e.manual_pts = od.pts
    /\ e.manual_mult = od.mult /\ e.manual_total = od.total
    /\ e.manual_note = od.note

\* the figures of the entry are those the enabled record gives
FiguresReflect(e, od) ==
    od.enabled =>
        /\ od.qso # None => e.recalced_qso = Val(od.qso)
        /\ od.pts # None => e.recalced_pts = Val(od.pts)
        /\ od.mult # None => e.recalced_mult = Val(od.mult)
        /\ e.recalced_total = IF od.total # None THEN Val(od.total)
                              ELSE e.recalced_pts * e.recalced_mult

\* the verdict of the entry compares its claims with its present figures
VerdictReflects(e) ==
    e.match = \/ e.claimed_total = Some(0)
              \/ /\ Agrees(e.claimed_qso, e.recalced_qso)
                 /\ Agrees(e.claimed_pts, e.recalced_pts)
                 /\ Agrees(e.claimed_mult, e.recalced_mult)
                 /\ Agrees(e.claimed_total, e.recalced_total)

\* C15: when a reload or a paste has completed, every entry whose callsign has
\* a record in manual_overrides.json carries the fields of the record, its
\* figures are those the record gives, and its verdict is taken on them.
C15_OverridesReapplied ==
    pc \in {"reload", "paste"} =>
        \A cs \in DOMAIN entries \cap DOMAIN overrides :
            /\ CarriesRecord(entries[cs], overrides[cs])
            /\ FiguresReflect(entries[cs], overrides[cs])
            /\ VerdictReflects(entries[cs])

\* a file whose log gives two multipliers and whose claims match it, read
\* while a record sets the multiplier to 1: the entry no longer matches
C15_Witness ==
    /\ pc = "reload"
    /\ CallA \in DOMAIN entries /\ CallA \in DOMAIN overrides
    /\ entries[CallA].raw_submission_text = SubA1
    /\ overrides[CallA].mult = Some(1)
    /\ entries[CallA].recalced_mult = 1
    /\ entries[CallA].recalced_total = 4
    /\ ~entries[CallA].match

-----------------------------------------------------------------------------
(* Award lists *)

\* s.split(ch)
RECURSIVE SplitOnFrom(_, _, _, _)
SplitOnFrom(s, ch, cur, acc) ==
    IF s = <<>> THEN Append(acc, cur)
    ELSE IF Head(s) = ch THEN SplitOnFrom(Tail(s), ch, <<>>, Append(acc, cur))
    ELSE SplitOnFrom(Tail(s), ch, Append(cur, Head(s)), acc)

SplitOn(s, ch) == SplitOnFrom(s, ch, <<>>, <<>>)

\* int(area): raised where Python raises ValueError
area_of_part(n) == [raised |-> n = None, area |-> n]

\* extract_call_area_digit_base from parts = callsign.split("/")
area_of_parts(parts) ==
    IF Len(parts) > 1 THEN area_of_part(int_or_none(Strip(parts[2])))
    ELSE [raised |-> FALSE, area |-> None]

extract_call_area_digit_base(callsign) == area_of_parts(SplitOn(callsign, "/"))

T1X == <<"1", "X">>
T1F == <<"1", "F">>

\* sorted(in_area_cats)
InAreaCats == << T1F, <<"1", "P">>, <<"1", "Q">>, <<"S", "W", "L">> >>

category_of(e) == Strip(e.category)

IsInAreaCat(c) == \E i \in 1..Len(InAreaCats) : InAreaCats[i] = c

\* the condition under which an entry becomes its area's winner
takes_area_always(e, area_winners, area) == TRUE

takes_area(e, area_winners, area) ==
    \/ area \notin DOMAIN area_winners
    \/ e.recalced_total > area_winners[area].recalced_total

\* the loop over out_entries: area_winners and the order its keys were inserted
RECURSIVE area_loop(_, _, _, _)
RECURSIVE area_step(_, _, _, _, _)
area_step(es, i, area_winners, order, got) ==
    IF got.raised THEN [ok |-> FALSE, area_winners |-> area_winners, order |-> order]
    ELSE IF got.area = None THEN area_loop(es, i + 1, area_winners, order)
    ELSE IF takes_area(es[i], area_winners, Val(got.area))
         THEN area_loop(es, i + 1, (Val(got.area) :> es[i]) @@ area_winners,
                        IF Val(got.area) \in DOMAIN area_winners THEN order
                        ELSE Append(order, Val(got.area)))
    ELSE area_loop(es, i + 1, area_winners, order)

area_loop(es, i, area_winners, order) ==
    IF i > Len(es) THEN [ok |-> TRUE, area_winners |-> area_winners, order |-> order]
    ELSE area_step(es, i, area_winners, order,
                   extract_call_area_digit_base(es[i].callsign))

rows_of_winners(winners, cat) == [i \in 1..Len(winners) |-> <<cat, winners[i][1], winners[i][2]>>]

\* rows_in: the top three with ties of every category present, in sorted order
RECURSIVE rows_in_from(_, _)
rows_in_from(in_entries, k) ==
    IF k > Len(InAreaCats) THEN <<>>
    ELSE LET InCat(e) == category_of(e) = InAreaCats[k]
         IN  rows_of_winners(top_n_with_ties(SelectSeq(in_entries, InCat), 3),
                             InAreaCats[k])
                \o rows_in_from(in_entries, k + 1)

award_result(rows_in, areas) ==
    [ok |-> areas.ok,
     rows_in |-> rows_in,
     rows_out |-> [i \in 1..Len(areas.order) |->
                      <<areas.order[i], 1, areas.area_winners[areas.order[i]]>>]]

NotChecklog(e) == ~e.is_checklog
InAreaEntry(e) == NotChecklog(e) /\ IsInAreaCat(category_of(e))
OutAreaEntry(e) == NotChecklog(e) /\ category_of(e) = T1X

\* build_award_lists: ok = FALSE stands for the ValueError that leaves it
build_award_lists(es) ==
    award_result(rows_in_from(SelectSeq(es, InAreaEntry), 1),
                 area_loop(SelectSeq(es, OutAreaEntry), 1, <<>>, <<>>))

-----------------------------------------------------------------------------
(* SpecAward: build_award_lists applied to every list of the bounded input set *)

AwardEntry(call, category, total, checklog) ==
    [StationEntry EXCEPT !.callsign = call, !.category = category,
                         !.recalced_total = total, !.recalced_pts = total,
                         !.recalced_mult = 1, !.recalced_qso = 1,
                         !.is_checklog = checklog]

AwardPool ==
    { AwardEntry(<<"J", "A", "2", "A", "/", "1">>, T1X, 6, FALSE),
      AwardEntry(<<"J", "A", "3", "B", "/", "0", "1">>, T1X, 8, FALSE),
      AwardEntry(<<"J", "A", "4", "C", "/", "1">>, T1X, 8, FALSE),
      AwardEntry(<<"J", "A", "5", "D", "/", "2">>, <<" ", "1", "X", " ">>, 4, FALSE),
      AwardEntry(<<"J", "A", "6", "E">>, T1X, 9, FALSE),
      AwardEntry(<<"J", "A", "7", "F", "/", "P">>, T1X, 5, FALSE),
      AwardEntry(<<"J", "A", "8", "G", "/", "1">>, T1X, 10, TRUE),
      AwardEntry(<<"J", "A", "1", "H">>, T1F, 7, FALSE) }

InitAward ==
    /\ pc = "entries"
    /\ input \in DistinctSeqsUpTo(AwardPool, MaxEntries)
    /\ output = <<>>
    /\ entry = StationEntry
    /\ rankIn = <<>> /\ ranked = <<>>
    /\ line = <<>> /\ rec = <<>> /\ exported = <<>> /\ rec2 = <<>>
    /\ entries = <<>> /\ overrides = <<>> /\ folder = <<>> /\ errors = <<>>

BuildAwardLists ==
    /\ pc = "entries"
    /\ output' = build_award_lists(input)
    /\ pc' = "awarded"
    /\ UNCHANGED <<input, entry, rankIn, ranked, line, rec, exported, rec2,
                   entries, overrides, folder, errors>>

NextAward == BuildAwardLists

SpecAward == InitAward /\ [][NextAward]_vars

HasSlash(cs) == \E i \in 1..Len(cs) : cs[i] = "/"

\* the number written after the first slash of a callsign of the input set
AreaNumber(cs) == ParseInt(SplitOn(cs, "/")[2])

\* the positions of the input holding a 1X entry in the competition
Candidates ==
    {i \in 1..Len(input) : ~input[i].is_checklog /\ Strip(input[i].category) = T1X}

\* C13: when build_award_lists returns, every row of the area list holds a
\* 1X entry of the competition whose callsign has a slash, with rank 1 and the
\* area its callsign gives; every area of such an entry has exactly one row,
\* and the entry of that row has a total >= that of every 1X entry of the area.
C13_OneWinnerPerArea ==
    (pc = "awarded" /\ output.ok) =>
        /\ \A r \in 1..Len(output.rows_out) :
              /\ \E i \in Candidates : input[i] = output.rows_out[r][3]
              /\ HasSlash(output.rows_out[r][3].callsign)
              /\ output.rows_out[r][2] = 1
              /\ output.rows_out[r][1] = AreaNumber(output.rows_out[r][3].callsign)
        /\ \A i \in Candidates :
              HasSlash(input[i].callsign) =>
                 /\ Cardinality({r \in 1..Len(output.rows_out) :
                        output.rows_out[r][1] = AreaNumber(input[i].callsign)}) = 1
                 /\ \A r \in 1..Len(output.rows_out) :
                        output.rows_out[r][1] = AreaNumber(input[i].callsign)
                           => output.rows_out[r][3].recalced_total
                                 >= input[i].recalced_total

\* an area with two candidates, won by the later one, beside an entry
\* without a slash that is left out
C13_Witness ==
    /\ pc = "awarded" /\ output.ok
    /\ Len(input) = 3
    /\ Candidates = {1, 2, 3}
    /\ \E i \in 1..3 : ~HasSlash(input[i].callsign)
    /\ Len(output.rows_out) = 1
    /\ \E i \in 1..3 : /\ HasSlash(input[i].callsign)
                       /\ input[i] # output.rows_out[1][3]
                       /\ \E j \in 1..3 : j > i /\ input[j] = output.rows_out[1][3]

-----------------------------------------------------------------------------
(* The other line parsers and the dispatcher *)

TAM == <<"A", "M">>

\* _safe_int applied to a text
_safe_int_str(x, default) == int_or_default(_to_int(x), default)

\* pt of parse_logsheet_hltst and parse_logsheet_zlog: a value that is not
\* positive becomes 0 when the line ends with a token 0, else 2
pts_or_default(pt, s) == IF pt > 0 THEN pt ELSE IF EndsWithZeroToken(s) THEN 0 ELSE 2

\* the record parse_logsheet_hltst appends for an accepted line
hltst_record(s, parts) ==
    QsoRecord(ReplaceChar(parts[1], "/", "-"),
              _parse_time(parts[2]),
              _parse_band_mhz(parts[3]),
              IF IsDigits(parts[4]) /\ _looks_callsign(parts[5]) THEN TAM ELSE parts[4],
              _clean_callsign(parts[5]),
              _canon_exchange(_extract_exchange_from_token(parts[7])),
              _canon_exchange(_extract_exchange_from_token(parts[9])),
              pts_or_default(_safe_int_str(IF Len(parts) > 10 THEN parts[11]
                                           ELSE parts[Len(parts)], 0), s))

hltst_parts(s, parts) ==
    IF Len(parts) < 10 THEN <<>>
    ELSE IF ~_looks_date(parts[1]) \/ ~_looks_time(parts[2]) THEN <<>>
    ELSE <<hltst_record(s, parts)>>

hltst_stripped(s) ==
    IF s = <<>> THEN <<>>
    ELSE IF StartsWith(s, <<"D", "A", "T", "E">>) \/ StartsWith(s, <<"-", "-", "-">>)
         THEN <<>>
    ELSE hltst_parts(s, Split(s))

RECURSIVE parse_logsheet_hltst(_)
parse_logsheet_hltst(lines) ==
    IF lines = <<>> THEN <<>>
    ELSE hltst_stripped(Strip(Head(lines))) \o parse_logsheet_hltst(Tail(lines))

\* the record parse_logsheet_zlog appends for an accepted line
zlog_record(s, parts) ==
    QsoRecord(ReplaceChar(parts[1], "/", "-"),
              _parse_time(parts[2]),
              _parse_band_mhz(parts[10]),
              parts[11],
              _clean_callsign(parts[3]),
              _canon_exchange(_extract_exchange_from_token(parts[5])),
              _canon_exchange(_extract_exchange_from_token(parts[7])),
              pts_or_default(_safe_int_str(parts[12], 0), s))

zlog_parts(s, parts) ==
    IF Len(parts) < 12 THEN <<>>
    ELSE IF ~_looks_date(parts[1]) \/ ~_looks_time(parts[2]) THEN <<>>
    ELSE <<zlog_record(s, parts)>>

zlog_stripped(s) ==
    IF s = <<>> THEN <<>>
    ELSE IF StartsWith(Lower(s), <<"d", "a", "t", "e">>) \/ StartsWith(s, <<"-", "-", "-">>)
         THEN <<>>
    ELSE zlog_parts(s, Split(s))

RECURSIVE parse_logsheet_zlog(_)
parse_logsheet_zlog(lines) ==
    IF lines = <<>> THEN <<>>
    ELSE zlog_stripped(Strip(Head(lines))) \o parse_logsheet_zlog(Tail(lines))

\* [c.strip() for c in raw.split(",")]
StripAll(cols) == [i \in 1..Len(cols) |-> Strip(cols[i])]

NotBlank(ln) == Strip(ln) # <<>>

\* has_header of parse_logsheet_custom_csv
has_header(sample) ==
    /\ Contains(sample, <<"D", "a", "t", "e">>) \/ Contains(sample, <<"D", "A", "T", "E">>)
    /\ \/ Contains(sample, <<"C", "a", "l", "l", "s", "i", "g", "n">>)
       \/ Contains(sample, <<"C", "A", "L", "L", "S", "I", "G", "N">>)

\* row.get(key) of a csv.DictReader row: "" stands for a missing key and for None
RowGet(names, vals, key) ==
    IF \E i \in 1..Len(names) : names[i] = key /\ i <= Len(vals)
    THEN vals[CHOOSE i \in 1..Len(names) :
                 /\ names[i] = key /\ i <= Len(vals)
                 /\ \A j \in 1..Len(names) : (names[j] = key /\ j <= Len(vals)) => j <= i]
    ELSE <<>>

\* row.get(k1) or row.get(k2) or ""
RowGet2(names, vals, k1, k2) == OrElse(RowGet(names, vals, k1), RowGet(names, vals, k2))

\* pt of the header rows: 0 stays 0 only for a row remarked dupe, else becomes
\* 2; a negative value is kept
header_pts(pt, rmks) ==
    IF pt > 0 THEN pt
    ELSE IF pt = 0 /\ Contains(Lower(rmks), <<"d", "u", "p", "e">>) THEN 0
    ELSE IF pt = 0 THEN 2
    ELSE pt

\* the records of one row of the DictReader
header_row(names, vals) ==
    IF ~_looks_date(Strip(RowGet2(names, vals, <<"D", "a", "t", "e">>, <<"D", "A", "T", "E">>)))
    THEN <<>>
    ELSE << QsoRecord(
              ReplaceChar(Strip(RowGet2(names, vals, <<"D", "a", "t", "e">>,
                                        <<"D", "A", "T", "E">>)), "/", "-"),
              _parse_time(Strip(RowGet2(names, vals, <<"T", "i", "m", "e">>,
                                        <<"T", "I", "M", "E">>))),
              _parse_band_mhz(Strip(OrElse(
                  RowGet2(names, vals, <<"M", "H", "z">>, <<"M", "H", "Z">>),
                  RowGet2(names, vals, <<"B", "a", "n", "d">>, <<"B", "A", "N", "D">>)))),
              OrElse(Strip(RowGet2(names, vals, <<"M", "o", "d", "e">>,
                                   <<"M", "O", "D", "E">>)), TAM),
              _clean_callsign(Strip(RowGet2(names, vals,
                                            <<"C", "a", "l", "l", "s", "i", "g", "n">>,
                                            <<"C", "A", "L", "L", "S", "I", "G", "N">>))),
              _canon_exchange(_extract_exchange_from_token(
                  Strip(RowGet2(names, vals, <<"S", "e", "n", "t">>, <<"S", "E", "N", "T">>)))),
              _canon_exchange(_extract_exchange_from_token(
                  Strip(RowGet2(names, vals, <<"R", "c", "v", "d">>, <<"R", "C", "V", "D">>)))),
              header_pts(_safe_int_str(Strip(RowGet2(names, vals, <<"P", "t", "s">>,
                                                     <<"P", "T", "S">>)), 0),
                         RowGet(names, vals, <<"R", "m", "k", "s">>))) >>

\* the loop over the DictReader: a row with more fields than the header makes
\* the join of row.values() raise, which leaves the loop with out as it is
RECURSIVE header_rows(_, _, _, _)
header_rows(names, data_lines, i, out) ==
    IF i > Len(data_lines) THEN [raised |-> FALSE, out |-> out]
    ELSE IF /\ Len(SplitOn(data_lines[i], ",")) > Len(names)
            /\ header_row(names, SplitOn(data_lines[i], ",")) # <<>>
         THEN [raised |-> TRUE, out |-> out]
    ELSE header_rows(names, data_lines, i + 1,
                     out \o header_row(names, SplitOn(data_lines[i], ",")))

\* re.search(r",0\s*$", raw)
EndsWithCommaZero(raw) ==
    LET r == RStrip(raw) IN Len(r) >= 2 /\ r[Len(r)] = "0" /\ r[Len(r) - 1] = ","

plain_pts(pt, raw) ==
    IF pt > 0 THEN pt
    ELSE IF EndsWithCommaZero(raw) \/ Contains(Lower(raw), <<"d", "u", "p", "e">>) THEN 0
    ELSE 2

\* the records of one line of a CSV without a header
plain_cols(raw, cols) ==
    IF Len(cols) < 8 THEN <<>>
    ELSE IF ~_looks_date(cols[1]) THEN <<>>
    ELSE << QsoRecord(ReplaceChar(cols[1], "/", "-"),
                      _parse_time(cols[2]),
                      _parse_band_mhz(cols[6]),
                      OrElse(cols[7], TAM),
                      _clean_callsign(cols[3]),
                      _canon_exchange(_extract_exchange_from_token(cols[4])),
                      _canon_exchange(_extract_exchange_from_token(cols[5])),
                      plain_pts(_safe_int_str(IF Len(cols) > 8 THEN cols[9]
                                              ELSE cols[Len(cols)], 0), raw)) >>

RECURSIVE plain_rows(_)
plain_rows(data_lines) ==
    IF data_lines = <<>> THEN <<>>
    ELSE (IF ~Contains(Head(data_lines), <<",">>) THEN <<>>
          ELSE plain_cols(Head(data_lines), StripAll(SplitOn(Head(data_lines), ","))))
            \o plain_rows(Tail(data_lines))

\* the records of one line in the except branch
fallback_cols(cols) ==
    IF Len(cols) < 6 THEN <<>>
    ELSE IF ~_looks_date(cols[1]) THEN <<>>
    ELSE << QsoRecord(ReplaceChar(cols[1], "/", "-"),
                      _parse_time(cols[2]),
                      _parse_band_mhz(cols[6]),
                      IF Len(cols) > 6 THEN cols[7] ELSE TAM,
                      _clean_callsign(cols[3]),
                      <<>>, <<>>,
                      _safe_int_str(IF Len(cols) > 8 THEN cols[9] ELSE cols[Len(cols)], 2)) >>

RECURSIVE fallback_rows(_)
fallback_rows(data_lines) ==
    IF data_lines = <<>> THEN <<>>
    ELSE (IF ~Contains(Strip(Head(data_lines)), <<",">>) THEN <<>>
          ELSE fallback_cols(StripAll(SplitOn(Strip(Head(data_lines)), ","))))
            \o fallback_rows(Tail(data_lines))

\* parse_logsheet_custom_csv after the header rows were read
csv_after_header(res, data_lines) ==
    IF res.raised THEN res.out \o fallback_rows(data_lines) ELSE res.out

csv_data_lines(data_lines) ==
    IF data_lines = <<>> THEN <<>>
    ELSE IF has_header(data_lines[1])
         THEN csv_after_header(header_rows(SplitOn(data_lines[1], ","),
                                           Tail(data_lines), 1, <<>>),
                               data_lines)
    ELSE plain_rows(data_lines)

parse_logsheet_custom_csv(lines) == csv_data_lines(SelectSeq(lines, NotBlank))

\* parse_logsheet_generic after t = logsheet_type.strip().upper(); the tags of
\* the input set are ASCII, so the test for the tag written in kanji is left out
generic_by_tag(lines, t) ==
    IF Contains(t, <<"H", "L", "T", "S", "T">>) THEN parse_logsheet_hltst(lines)
    ELSE IF Contains(t, <<"Z", "L", "O", "G">>) THEN parse_logsheet_zlog(lines)
    ELSE IF Contains(t, <<"C", "S", "V">>) THEN parse_logsheet_custom_csv(lines)
    ELSE IF \/ Contains(t, <<"C", "T", "E", "S", "T", "W", "I", "N">>)
            \/ Contains(t, <<"L", "O", "G", "S", "H", "E", "E", "T", "F", "O", "R", "M">>)
            \/ t = <<>>
         THEN parse_logsheet_ctestwin(lines)
    ELSE IF parse_logsheet_ctestwin(lines) # <<>> THEN parse_logsheet_ctestwin(lines)
    ELSE parse_logsheet_custom_csv(lines)

parse_logsheet_generic(lines, logsheet_type) ==
    generic_by_tag(lines, Upper(Strip(logsheet_type)))

-----------------------------------------------------------------------------
(* SpecLog: parse_logsheet_generic applied to every list of lines and every
   declared type of the bounded input set *)

MaxLines == 2

\* 2025/05/05 1000 50 AM ja1c 59 5 59 12 x -1
LineH ==
    <<"2", "0", "2", "5", "/", "0", "5", "/", "0", "5", " ", "1", "0", "0", "0",
      " ", "5", "0", " ", "A", "M", " ", "j", "a", "1", "c", " ", "5", "9",
      " ", "5", " ", "5", "9", " ", "1", "2", " ", "x", " ", "-", "1">>

\* 2025-05-05 10:00 JA1D 59 5 59 13 - - 50 AM 1
LineZ ==
    <<"2", "0", "2", "5", "-", "0", "5", "-", "0", "5", " ", "1", "0", ":", "0",
      "0", " ", "J", "A", "1", "D", " ", "5", "9", " ", "5", " ", "5", "9",
      " ", "1", "3", " ", "-", " ", "-", " ", "5", "0", " ", "A", "M", " ",
      "1">>

\* 2025-05-05 25h JA1D 59 5 59 13 - - 50 AM 0
LineZBadTime ==
    <<"2", "0", "2", "5", "-", "0", "5", "-", "0", "5", " ", "2", "5", "h", " ",
      "J", "A", "1", "D", " ", "5", "9", " ", "5", " ", "5", "9", " ", "1",
      "3", " ", "-", " ", "-", " ", "5", "0", " ", "A", "M", " ", "0">>

\* Date,Time,Callsign,Sent,Rcvd,MHz,Mode,Pts
CsvHeader ==
    <<"D", "a", "t", "e", ",", "T", "i", "m", "e", ",", "C", "a", "l", "l", "s",
      "i", "g", "n", ",", "S", "e", "n", "t", ",", "R", "c", "v", "d", ",",
      "M", "H", "z", ",", "M", "o", "d", "e", ",", "P", "t", "s">>

\* 2025-05-05,1000,ja1c,5,12,50,AM,-1
CsvRowNegative ==
    <<"2", "0", "2", "5", "-", "0", "5", "-", "0", "5", ",", "1", "0", "0", "0",
      ",", "j", "a", "1", "c", ",", "5", ",", "1", "2", ",", "5", "0", ",",
      "A", "M", ",", "-", "1">>

\* 2025/05/05,bad,JA1D,5,13,50,,0
CsvRowBadTime ==
    <<"2", "0", "2", "5", "/", "0", "5", "/", "0", "5", ",", "b", "a", "d", ",",
      "J", "A", "1", "D", ",", "5", ",", "1", "3", ",", "5", "0", ",", ",",
      "0">>

\* 2025-05-05,1000,JA1A,5,12,50,AM,x,-3
CsvRowNine ==
    <<"2", "0", "2", "5", "-", "0", "5", "-", "0", "5", ",", "1", "0", "0", "0",
      ",", "J", "A", "1", "A", ",", "5", ",", "1", "2", ",", "5", "0", ",",
      "A", "M", ",", "x", ",", "-", "3">>

\* a blank line
LineBlank ==
    <<" ">>

\* hello
LineJunk ==
    <<"h", "e", "l", "l", "o">>

LogLinePool ==
    { LineC, LineH, LineZ, LineZBadTime, CsvHeader, CsvRowNegative, CsvRowBadTime,
      CsvRowNine, LineBlank, LineJunk }

\* the TYPE attribute of the LOGSHEET tag; "" when there is none
LogTypePool ==
    { <<>>,
      <<"c", "t", "e", "s", "t", "w", "i", "n">>,
      <<" ", "h", "l", "t", "s", "t", " ">>,
      <<"z", "L", "o", "g">>,
      <<"c", "s", "v">>,
      <<"o", "t", "h", "e", "r">> }

InitLog ==
    /\ pc = "lines"
    /\ input \in [lines : SeqsUpTo(LogLinePool, MaxLines), type : LogTypePool]
    /\ output = <<>>
    /\ entry = StationEntry
    /\ rankIn = <<>> /\ ranked = <<>>
    /\ line = <<>> /\ rec = <<>> /\ exported = <<>> /\ rec2 = <<>>
    /\ entries = <<>> /\ overrides = <<>> /\ folder = <<>> /\ errors = <<>>

ParseGeneric ==
    /\ pc = "lines"
    /\ output' = parse_logsheet_generic(input.lines, input.type)
    /\ pc' = "parsed"
    /\ UNCHANGED <<input, entry, rankIn, ranked, line, rec, exported, rec2,
                   entries, overrides, folder, errors>>

NextLog == ParseGeneric

SpecLog == InitLog /\ [][NextLog]_vars

\* C17: every record a line parser produces has a point value >= 0.
C17_PointsNonNegative ==
    pc = "parsed" => \A i \in 1..Len(output) : output[i].pts >= 0

\* C19: every record a line parser produces has a date of the shape
\* dddd-dd-dd and a time of the shape dd:dd, the lines whose first two fields
\* do not look like a date and a time being dropped.
C19_DateAndTimeShapes ==
    pc = "parsed" =>
        \A i \in 1..Len(output) :
            /\ _looks_date(output[i].date)
            /\ IsHHMM(output[i].time)

\* the declared type as the dispatcher compares it
DeclaredTag == Upper(Strip(input.type))

\* C20: parse_logsheet_generic returns what the parser named by the declared
\* type returns; for a type naming no parser and for an empty type alike it
\* returns what the canonical parser returns, or, when that is no record, what
\* the CSV parser returns.
C20_DispatchByTag ==
    pc = "parsed" =>
        output =
            IF Contains(DeclaredTag, <<"H", "L", "T", "S", "T">>)
            THEN parse_logsheet_hltst(input.lines)
            ELSE IF Contains(DeclaredTag, <<"Z", "L", "O", "G">>)
            THEN parse_logsheet_zlog(input.lines)
            ELSE IF Contains(DeclaredTag, <<"C", "S", "V">>)
            THEN parse_logsheet_custom_csv(input.lines)
            ELSE IF Contains(DeclaredTag, <<"C", "T", "E", "S", "T", "W", "I", "N">>)
            THEN parse_logsheet_ctestwin(input.lines)
            ELSE IF parse_logsheet_ctestwin(input.lines) # <<>>
            THEN parse_logsheet_ctestwin(input.lines)
            ELSE parse_logsheet_custom_csv(input.lines)

-----------------------------------------------------------------------------
(* SpecBuild: build_station_entry_from_text applied to every submission and *)
(* every fallback callsign of the bounded input set                          *)

\* the fallback callsign as a caller may pass it: none, blank, lower case,
\* padded, clean
FallbackPool ==
    { <<>>,
      <<" ">>,
      <<"j", "a", "1", "b">>,
      <<" ", "J", "A", "1", "B", " ">>,
      CallB,
      TJA1C }

\* a summary without a TOTALSCORE tag whose SCORE is not what the log gives
SubNoTotal ==
    Submission(TRUE, Some(CallA), Some(<<"9", ",", "9", ",", "9">>), None, <<LineC, LineD>>)

\* a summary whose TOTALSCORE is not a number
SubBadTotal ==
    Submission(TRUE, Some(CallB), Some(<<"9", ",", "9", ",", "9">>), Some(<<"x">>), <<LineC>>)

\* "home (Chiba city)": a marker phrase inside a longer OPPLACE text
OpHomeInText == <<"u81ea", "u5b85", " ", "u5343", "u8449", "u5e02">>

\* summaries whose OPPLACE holds a marker phrase in a longer text, is blank,
\* names a city while the ADDRESS tag is missing, names the city of Saitama
\* without its ward
SubHomeInText ==
    Located(Submission(TRUE, Some(CallA), None, Some(<<"0">>), <<LineC>>),
            Some(AddrYokohama), Some(OpHomeInText))
SubBlankPlace ==
    Located(Submission(TRUE, Some(CallA), None, Some(<<"0">>), <<LineC>>),
            Some(AddrYokohama), Some(<<" ">>))
SubPlaceOnly ==
    Located(Submission(TRUE, Some(CallA), None, Some(<<"0">>), <<LineC>>),
            None, Some(OpChiba))
SubSaitama ==
    Located(Submission(TRUE, Some(CallA), None, Some(<<"0">>), <<LineC>>),
            Some(AddrSaitama), Some(SaitamaCity))

BuildPool ==
    FilePool \cup PastePool \cup
    {SubNoTotal, SubBadTotal, SubHomeInText, SubBlankPlace, SubPlaceOnly, SubSaitama}

\* the place as a caller may pass it: none, blank, a city
FallbackPlacePool == {<<>>, <<" ">>, TypedKawasaki}

InitBuild ==
    /\ pc = "text"
    /\ input \in [sub : BuildPool, fallback_callsign : FallbackPool,
                  fallback_opplace : FallbackPlacePool,
                  source_name : {"file", "paste"}]
    /\ output = <<>>
    /\ entry = StationEntry
    /\ rankIn = <<>> /\ ranked = <<>>
    /\ line = <<>> /\ rec = <<>> /\ exported = <<>> /\ rec2 = <<>>
    /\ entries = <<>> /\ overrides = <<>> /\ folder = <<>> /\ errors = <<>>

BuildEntry ==
    /\ pc = "text"
    /\ output' = build_station_entry_from_text(input.sub, input.fallback_callsign,
                                               input.fallback_opplace, input.source_name)
    /\ pc' = "built"
    /\ UNCHANGED <<input, entry, rankIn, ranked, line, rec, exported, rec2,
                   entries, overrides, folder, errors>>

NextBuild == BuildEntry

SpecBuild == InitBuild /\ [][NextBuild]_vars

\* C18: every entry build_station_entry_from_text returns has a callsign that
\* is not empty and equals itself trimmed and upper-cased, whether it came
\* from the summary or from the fallback.
C18_CallsignClean ==
    (pc = "built" /\ output.ok) =>
        /\ output.entry.callsign # <<>>
        /\ output.entry.callsign = Upper(Strip(output.entry.callsign))

-----------------------------------------------------------------------------
(* SpecCanon: parse_logsheet_ctestwin applied to one line of ten fields      *)
(* DATE TIME BAND MODE CALL RST SENT RST RCVD PTS                            *)

CanonFields ==
    [date : {TDate},
     time : {THHMM, T1000},
     band : {S50, T50MHz},
     mode : {SAM, <<"2">>},
     call : {CallA, TCallLower},
     rst1 : {T59, <<"5", "7">>},
     sent : {<<"5">>, <<"1", "2">>, <<"5", "9", "5", "9">>, <<"0", "5">>},
     rst2 : {T59},
     rcvd : {<<"1", "2">>, <<"5", "9", "1", "2">>, <<"7">>, <<"5", "7">>},
     pts : {<<"1">>, <<"0", "2">>}]

\* the line of a record of fields
canon_line(f) ==
    JoinSpace(<<f.date, f.time, f.band, f.mode, f.call, f.rst1, f.sent, f.rst2,
                f.rcvd, f.pts>>)

InitCanon ==
    /\ pc = "fields"
    /\ input \in CanonFields
    /\ output = <<>>
    /\ entry = StationEntry
    /\ rankIn = <<>> /\ ranked = <<>>
    /\ line = <<>> /\ rec = <<>> /\ exported = <<>> /\ rec2 = <<>>
    /\ entries = <<>> /\ overrides = <<>> /\ folder = <<>> /\ errors = <<>>

ParseCanon ==
    /\ pc = "fields"
    /\ output' = parse_logsheet_ctestwin(<<canon_line(input)>>)
    /\ pc' = "parsed"
    /\ UNCHANGED <<input, entry, rankIn, ranked, line, rec, exported, rec2,
                   entries, overrides, folder, errors>>

NextCanon == ParseCanon

SpecCanon == InitCanon /\ [][NextCanon]_vars

\* both RST fields are signal-report codes, SENT and RCVD are numeric and not
\* a signal-report code, PTS is numeric and positive
CanonicalFields ==
    /\ IsRst(input.rst1) /\ IsRst(input.rst2)
    /\ IsDigits(input.sent) /\ ~IsRst(input.sent)
    /\ IsDigits(input.rcvd) /\ ~IsRst(input.rcvd)
    /\ IsDigits(input.pts) /\ ParseInt(input.pts) > 0

\* one record with the band, mode, upper-cased call, exchanges and points of
\* the fields, not a duplicate
OneRecordOfFields ==
    /\ Len(output) = 1
    /\ output[1].band_mhz = input.band
    /\ output[1].mode = input.mode
    /\ output[1].worked_call = Upper(input.call)
    /\ output[1].sent_exch = input.sent
    /\ output[1].rcvd_exch = input.rcvd
    /\ output[1].pts = ParseInt(input.pts)
    /\ output[1].dup = FALSE

\* the statement of C21 as it was made: every line of canonical fields gives
\* the one record of its fields
C21_AsStated == (pc = "parsed" /\ CanonicalFields) => OneRecordOfFields

StartsWithRst(tok) == \E i \in 1..Len(RST_PREFIXES) : StartsWith(tok, RST_PREFIXES[i])

\* BAND is a number, MODE is not a number, SENT and RCVD neither start with a
\* signal-report code nor with a zero
PlainFields ==
    /\ IsDigits(input.band)
    /\ ~IsDigits(input.mode)
    /\ ~StartsWithRst(input.sent) /\ input.sent[1] # "0"
    /\ ~StartsWithRst(input.rcvd) /\ input.rcvd[1] # "0"

\* C21: a line of ten fields DATE TIME BAND MODE CALL RST SENT RST RCVD PTS
\* whose RST fields are signal-report codes, whose SENT and RCVD are numeric,
\* do not start with a signal-report code and have no leading zero, whose BAND
\* is a number, whose MODE is not a number and whose PTS is numeric and
\* positive gives exactly one record, with that band, mode, upper-cased call,
\* sent = SENT, rcvd = RCVD, pts = PTS and dup = false.
C21_CanonicalLine ==
    (pc = "parsed" /\ CanonicalFields /\ PlainFields) => OneRecordOfFields

C21_Witness ==
    /\ pc = "parsed" /\ CanonicalFields /\ PlainFields
    /\ input.call = TCallLower /\ input.rst1 = <<"5", "7">> /\ input.time = T1000
    /\ input.sent = <<"1", "2">> /\ input.rcvd = <<"7">> /\ input.pts = <<"0", "2">>
    /\ output[1].worked_call = <<"J", "A", "1", "B">> /\ output[1].pts = 2

-----------------------------------------------------------------------------
(* The dedup pass on a contact first seen with zero points *)

\* contact j has points and exactly one earlier contact of its key, which has
\* zero points
AfterOneZeroPointer(qs, j) ==
    /\ qs[j].pts > 0
    /\ \E i \in 1..(j - 1) :
        /\ dedup_key(qs[i]) = dedup_key(qs[j])
        /\ qs[i].pts = 0
        /\ \A k \in 1..(j - 1) : dedup_key(qs[k]) = dedup_key(qs[j]) => k = i

\* C22: a contact first seen with zero points does not record its key: a
\* later contact of the same key that has points, with no other earlier
\* contact of that key, is marked not-duplicate and keeps its points.
C22_ZeroPointerNotRecorded ==
    [][ pc = "built" =>
            \A j \in 1..Len(entry.qsos) :
                AfterOneZeroPointer(entry.qsos, j) =>
                    /\ entry'.qsos[j].dup = FALSE
                    /\ entry'.qsos[j].pts = entry.qsos[j].pts ]_vars

-----------------------------------------------------------------------------
(* SpecTail: parse_logsheet_ctestwin applied to a line whose tokens after    *)
(* the callsign are drawn from a pool of exchanges, points and dup markers   *)

MaxTailTokens == 3

TailTokenPool ==
    { T59, <<"5">>, <<"-">>, <<"x">>, TDup, <<"D", "U", "P", "E">>, <<"0">>,
      <<"2", ",">> }

\* DATE TIME BAND MODE CALL and the tokens after them
tail_line(rest) == JoinSpace(<<TDate, THHMM, S50, SAM, CallA>> \o rest)

InitTail ==
    /\ pc = "tokens"
    /\ input \in {r \in SeqsUpTo(TailTokenPool, MaxTailTokens) : r # <<>>}
    /\ output = <<>>
    /\ entry = StationEntry
    /\ rankIn = <<>> /\ ranked = <<>>
    /\ line = <<>> /\ rec = <<>> /\ exported = <<>> /\ rec2 = <<>>
    /\ entries = <<>> /\ overrides = <<>> /\ folder = <<>> /\ errors = <<>>

ParseTail ==
    /\ pc = "tokens"
    /\ output' = parse_logsheet_ctestwin(<<tail_line(input)>>)
    /\ pc' = "parsed"
    /\ UNCHANGED <<input, entry, rankIn, ranked, line, rec, exported, rec2,
                   entries, overrides, folder, errors>>

NextTail == ParseTail

SpecTail == InitTail /\ [][NextTail]_vars

\* a token that is a number once its commas are removed
IsPointToken(tok) == IsDigits(Strip(RemoveAll(tok, <<",">>)))

IsDupToken(tok) == Lower(tok) \in {<<"d", "u", "p", "e">>, <<"d", "u", "p">>}

\* neither the last token nor the token before a trailing dup marker is a number
NoPointToken(rest) ==
    /\ ~IsPointToken(rest[Len(rest)])
    /\ ~(Len(rest) >= 2 /\ IsDupToken(rest[Len(rest)]) /\ IsPointToken(rest[Len(rest) - 1]))

\* C23: a line without a numeric point token gives a record with 0 points if
\* the line ends with a token 0 or contains a dup marker, and with 2 points
\* otherwise.
C23_DefaultPoints ==
    (pc = "parsed" /\ NoPointToken(input)) =>
        /\ Len(output) = 1
        /\ output[1].pts =
              IF EndsWithZeroToken(tail_line(input)) \/ HasDupMarker(tail_line(input))
              THEN 0 ELSE 2

-----------------------------------------------------------------------------
(* SpecExch: _extract_exchange_from_token applied to every short token *)

MaxTokenLen == 3

TokenChars == {"5", "9", "7", "0", "-", "x", " "}

InitExch ==
    /\ pc = "token"
    /\ input \in SeqsUpTo(TokenChars, MaxTokenLen)
    /\ output = <<>>
    /\ entry = StationEntry
    /\ rankIn = <<>> /\ ranked = <<>>
    /\ line = <<>> /\ rec = <<>> /\ exported = <<>> /\ rec2 = <<>>
    /\ entries = <<>> /\ overrides = <<>> /\ folder = <<>> /\ errors = <<>>

ExtractExchange ==
    /\ pc = "token"
    /\ output' = _extract_exchange_from_token(input)
    /\ pc' = "extracted"
    /\ UNCHANGED <<input, entry, rankIn, ranked, line, rec, exported, rec2,
                   entries, overrides, folder, errors>>

NextExch == ExtractExchange

SpecExch == InitExch /\ [][NextExch]_vars

\* the token starts with a signal-report code and is longer than it
HasRstPrefix(s) == StartsWithRst(s) /\ Len(s) > 2

\* C24: the extraction is the digits of what follows a leading signal-report
\* code when the token starts with the code and is longer than it, and the
\* digits of the token in every other case, a token that is exactly a
\* signal-report code included; it is empty only for an empty token, for "-"
\* and for a token without digits.
C24_ExchangeExtraction ==
    pc = "extracted" =>
        LET s == Strip(input)
        IN  /\ output = IF HasRstPrefix(s) THEN OnlyDigits(SubSeq(s, 3, Len(s)))
                        ELSE OnlyDigits(s)
            /\ output = <<>> => (s = <<>> \/ s = <<"-">> \/ OnlyDigits(s) = <<>>)

-----------------------------------------------------------------------------
(* The award lists for a callsign whose slash is not followed by a number *)

\* C26: build_award_lists returns for every list of entries: no callsign
\* makes it raise, and a 1X entry whose slash is not followed by digits has
\* no row in the area list.
C26_AwardsNeverRaise ==
    pc = "awarded" =>
        /\ output.ok
        /\ \A r \in 1..Len(output.rows_out) :
              IsDigits(SplitOn(output.rows_out[r][3].callsign, "/")[2])

-----------------------------------------------------------------------------
(* The two ranking routines *)

\* C30: for a list without checklog entries, every entry has the same rank
\* number in the table numbered by _competition_ranks as in the list
\* rank_entries returns.
C30_RankingsAgree ==
    (pc = "published" /\ NoChecklogIn) =>
        /\ Len(output) = Len(ranked)
        /\ \A i \in 1..Len(output) :
              \A j \in 1..Len(ranked) :
                  output[i][2] = ranked[j][2] => output[i][1] = ranked[j][1]

-----------------------------------------------------------------------------
(* The claimed total of an entry built from a summary *)

\* the TOTALSCORE tag is missing or its text is not a number
NoUsableTotal(sub) == sub.totalscore = None \/ _to_int(Val(sub.totalscore)) = None

\* C28: an entry built from a submission with a summary section has a
\* claimed_total; when the TOTALSCORE field is missing or is not a number the
\* claimed_total is 0, and the entry is marked matching by the zero-claim
\* rule with no difference reported.
C28_SummaryTotalNeverAbsent ==
    (pc = "built" /\ output.ok /\ input.sub.has_summary) =>
        /\ output.entry.claimed_total # None
        /\ NoUsableTotal(input.sub) =>
              /\ output.entry.claimed_total = Some(0)
              /\ output.entry.match
              /\ output.entry.reason = ZeroClaimReason

\* a summary without a total whose claimed figures differ from the log's
C28_Witness ==
    /\ pc = "built" /\ output.ok
    /\ input.sub = SubNoTotal
    /\ output.entry.claimed_qso = Some(9)
    /\ output.entry.recalced_qso = 2
    /\ output.entry.claimed_total = Some(0)
    /\ output.entry.match

-----------------------------------------------------------------------------
(* Clearing a manual override *)

\* the figures, the verdict and the operating place of an entry
Derived(e) ==
    <<e.recalced_qso, e.recalced_pts, e.recalced_mult, e.recalced_total,
      e.match, e.reason, e.opplace>>

\* the entry is what build_station_entry_from_text gave for its submission,
\* whatever callsign and place were typed beside it
AsBuilt(e) ==
    \E k \in DOMAIN BuildTable :
        /\ k[1] = e.raw_submission_text /\ k[4] = e.source_name
        /\ BuildTable[k].ok
        /\ BuildTable[k].entry.callsign = e.callsign
        /\ Derived(BuildTable[k].entry) = Derived(e)

\* the station whose override on_manual_clear_selected has just removed
JustCleared(cs) ==
    /\ pc' = "manual_cleared"
    /\ cs \in DOMAIN entries
    /\ entries[cs].manual_enabled
    /\ ~entries'[cs].manual_enabled

\* C29: clearing a station's manual override returns the entry to the state it
\* has when no override was ever applied: its recomputed QSO, points, multiplier
\* and total, its match and reason and its operating place all equal the values
\* derived from the submission alone, also when the cleared override held a
\* place.
C29_ClearRestoresEntry ==
    [][\A cs \in DOMAIN entries' : JustCleared(cs) => AsBuilt(entries'[cs])]_vars

-----------------------------------------------------------------------------
(* The entries between two handlers *)

\* what recalc_entry recomputes: the figures, the verdict and each contact's
\* dup and pts
Recomputed(e) ==
    <<e.recalced_qso, e.recalced_pts, e.recalced_mult, e.recalced_total,
      e.match, e.reason,
      [i \in 1..Len(e.qsos) |-> <<e.qsos[i].dup, e.qsos[i].pts>>]>>

HandlerDone == pc \in {"reload", "paste", "manual_saved", "manual_cleared"}

\* C27: after each collection operation (reload, paste-add, manual-override
\* save, manual-override clear) every entry of the collection is consistent
\* with its contacts and override fields: running recalc_entry on it again
\* changes none of its recomputed figures, match, reason or any contact's dup
\* and pts.
C27_EntriesRecomputed ==
    HandlerDone =>
        \A cs \in DOMAIN entries : Recomputed(recalc_entry(entries[cs])) = Recomputed(entries[cs])

\* an override that changes a figure is in force on an entry with a duplicate
\* contact, beside another entry, after each of the four operations
C27_WitnessAfter(op) ==
    /\ pc = op
    /\ Cardinality(DOMAIN entries) >= 2
    /\ \E cs \in DOMAIN entries :
          /\ \E i \in 1..Len(entries[cs].qsos) : entries[cs].qsos[i].dup
          /\ \/ op = "manual_cleared"
             \/ /\ entries[cs].manual_enabled
                /\ entries[cs].manual_pts # None
                /\ Val(entries[cs].manual_pts) # SumPts(SelectSeq(entries[cs].qsos, IsValid))

C27_Witness == C27_WitnessAfter("manual_saved")

-----------------------------------------------------------------------------
(* The operating place of a built entry *)

\* the texts of the ADDRESS and OPPLACE tags as parse_summarysheet reads them
AddressText == tag_or_empty(input.sub.address)
OpplaceText == tag_or_empty(input.sub.opplace)

\* the OPPLACE text is empty or holds one of the marker phrases
SaysHome ==
    \/ OpplaceText = <<>>
    \/ \E k \in 1..Len(HOME_MARKERS) :
          \E i \in 1..(Len(OpplaceText) - Len(HOME_MARKERS[k]) + 1) :
              SubSeq(OpplaceText, i, i + Len(HOME_MARKERS[k]) - 1) = HOME_MARKERS[k]

\* an entry was built from a summary and the caller gave no place
BuiltWithoutPlace ==
    /\ pc = "built"
    /\ output.ok
    /\ input.sub.has_summary
    /\ Strip(input.fallback_opplace) = <<>>

\* C25: when a summary section is present and the caller supplies no place,
\* the entry's operating place is derived from the station's postal address if
\* and only if the OPPLACE text is empty or contains one of the fixed
\* home-marker phrases; otherwise it is derived from the OPPLACE text.
C25_PlaceFromAddressIffHome ==
    BuiltWithoutPlace =>
        /\ SaysHome => output.entry.opplace = normalize_opplace_any(AddressText, AddressText)
        /\ ~SaysHome => output.entry.opplace = normalize_opplace_any(OpplaceText, AddressText)

\* a marker phrase inside a longer OPPLACE text that names another city: the
\* place is the one of the address, not the one the text would give
C25_Witness ==
    /\ BuiltWithoutPlace
    /\ SaysHome
    /\ OpplaceText # <<>>
    /\ input.fallback_opplace # <<>>
    /\ output.entry.opplace # <<>>
    /\ output.entry.opplace # normalize_opplace_any(OpplaceText, AddressText)

====
